---- MODULE Spec2Model ----
(***************************************************************************)
(* A model of the @apostrophecms/module base class: the route wrappers,    *)
(* the error normalizer routeSendError, the cache helpers isSafeToCache,   *)
(* setMaxAge, generateETagParts, setETag and checkETag, and the startup of *)
(* a module: init, addHandlers, getRouteUrl and the compilation of routes. *)
(*                                                                         *)
(* JavaScript values are records.  A missing property is the string        *)
(* "undefined" (Undef) for string-valued properties, and the record NoData *)
(* for the data property.  Strings the code splits, joins or converts      *)
(* (the ETag and If-None-Match headers) are sequences of one-character     *)
(* strings, so that split, join and the conversions are real operations.   *)
(***************************************************************************)
EXTENDS Integers, Sequences, FiniteSets, TLC

VARIABLES
  req,      \* the request in flight: route kind, method, user, session, headers
  res,      \* req.res: statusCode and the headers written so far
  trace,    \* calls made on req.res, the logger, console and handlers, in order
  pc,       \* position of the wrapper: idle, handler, done, rejected
  outcome,  \* how the handler ended: what it returned or what it threw
  ret,      \* the value returned by the last helper that was called
  apos,     \* the registry object: apos.modules, its other top-level
            \* properties, and the handlers registered for each event
  self,     \* the modules by name: options, sections, action and _routes
  emission, \* the event being emitted and the handler it has reached
  calls     \* the calls of compiled handler-array routes that are in flight

vars == <<req, res, trace, pc, outcome, ret, apos, self, emission, calls>>

\* the state written at startup, and the state of the request in flight
bootVars == <<apos, self, emission>>
reqVars == <<req, res, pc, outcome, calls>>

\* ------------------------------------------------------------------------
\* Bounds
\* ------------------------------------------------------------------------

\* Longest sequence of errors (a thrown array, or data.errors of an error).
MaxErrors == 2

\* Most colon separated parts of an If-None-Match header.
MaxParts == 3

\* ------------------------------------------------------------------------
\* JavaScript values
\* ------------------------------------------------------------------------

Undef == "undefined"

\* err.data is undefined
NoData == [kind |-> "undefined", val |-> Undef, hasErrors |-> FALSE, errors |-> <<>>]

\* the literal {}
EmptyObject == [kind |-> "object", val |-> "{}", hasErrors |-> FALSE, errors |-> <<>>]

\* an object with some content v and no errors array
DataObj(v) == [kind |-> "object", val |-> v, hasErrors |-> FALSE, errors |-> <<>>]

\* { errors: [ ... ] }
DataErrors(es) == [kind |-> "object", val |-> "{errors}", hasErrors |-> TRUE, errors |-> es]

\* `x || {}` and `if (x)` for a data value
Truthy(data) == data.kind = "object"

JsNull == [kind |-> "null"]
JsUndefined == [kind |-> "undefined"]
IsNullish(v) == v \in {JsNull, JsUndefined}

\* An Error or plain object with the properties routeSendError reads.
\* stack is the sequence of the lines of err.stack, <<>> when there is none.
ErrObj(name, message, data, path, stack, cause) ==
  [kind |-> "object", name |-> name, message |-> message, data |-> data,
   path |-> path, stack |-> stack, cause |-> cause]

\* A thrown primitive string: every property read on it is undefined.
JsString == [kind |-> "string", name |-> Undef, message |-> Undef, data |-> NoData,
             path |-> Undef, stack |-> <<>>, cause |-> Undef]

\* A thrown array of errors.
JsArray(items) == [kind |-> "array", items |-> items]
IsArray(v) == v.kind = "array"

\* ------------------------------------------------------------------------
\* Collaborators that are not part of this module's source
\* ------------------------------------------------------------------------

\* self.apos.http.errors: the taxonomy, error name -> HTTP status
errors == [n \in {"invalid", "required", "notfound"} |->
             CASE n = "invalid" -> 400
               [] n = "required" -> 400
               [] n = "notfound" -> 404]

\* self.apos.error(name, data): an Error with that name and data
aposError(name, data) == ErrObj(name, name, data, Undef, <<"Error: " \o name, "at error">>, Undef)

\* what res.send throws when it cannot serialize the body
SendError == ErrObj("TypeError", "circular", NoData, Undef, <<"TypeError: circular", "at send">>, Undef)

\* ------------------------------------------------------------------------
\* routeSendError
\* ------------------------------------------------------------------------

\* the result of a call that threw instead of returning
Threw == [threw |-> TRUE]

SeqMap(f(_), s) == [i \in 1..Len(s) |-> f(s[i])]
AnyThrew(s) == \E i \in 1..Len(s) : s[i].threw

\* line 277: the error carries a name that the taxonomy maps
IsKnown(err) == err.name # Undef /\ err.name \in DOMAIN errors

\* lines 307-314: the normalized response
Response(name, data, code, path, fn, message) ==
  [threw |-> FALSE, name |-> name, data |-> data, code |-> code, path |-> path,
   fn |-> fn, message |-> message]

\* lines 297-304: the entry of data.errors built from a sub-error's response
SubEntry(response) ==
  [name |-> response.name, code |-> response.code, message |-> response.message,
   data |-> response.data, path |-> response.path]

\* lines 295-305, given the responses of the sub-errors
ReplaceErrors(data, subs) ==
  IF AnyThrew(subs) THEN Threw
  ELSE [threw |-> FALSE, data |-> [data EXCEPT !.errors = SeqMap(SubEntry, subs)]]

RECURSIVE getResponse(_)

\* lines 292-306: the sub-errors of an 'invalid' error get the same treatment
CleanseData(name, data) ==
  IF name = "invalid" /\ data.hasErrors
    THEN ReplaceErrors(data, SeqMap(getResponse, data.errors))
    ELSE [threw |-> FALSE, data |-> data]

\* lines 292-315, given the fields set by either branch of line 277
Finish(name, cleansed, code, path, fn, message) ==
  IF cleansed.threw THEN Threw
  ELSE Response(name, cleansed.data, code, path, fn, message)

\* a variant of KnownResponse without the `|| {}` default of line 278
KnownResponseRawData(err) ==
  Finish(err.name, CleanseData(err.name, err.data),
         errors[err.name], err.path, "util.info", err.message)

\* lines 278-283
KnownResponse(err) ==
  Finish(err.name, CleanseData(err.name, IF Truthy(err.data) THEN err.data ELSE EmptyObject),
         errors[err.name], err.path, "util.info", err.message)

\* a variant of UnknownResponse that exposes the error's own message and data
UnknownResponseLeaky(err) ==
  Finish("error", CleanseData("error", IF Truthy(err.data) THEN err.data ELSE EmptyObject),
         500, err.path, "util.error", err.message)

\* lines 285-290
UnknownResponse(err) ==
  Finish("error", CleanseData("error", EmptyObject),
         500, err.path, "util.error", "An error occurred.")

\* lines 275-315.  Reading err.path of null or undefined (line 290) throws.
getResponse(err) ==
  IF IsNullish(err) THEN Threw
  ELSE IF IsKnown(err) THEN KnownResponse(err)
  ELSE UnknownResponse(err)

\* lines 235-241, given the response of the element
ArrayEntryOf(response, err) ==
  IF response.threw THEN Threw
  ELSE [threw |-> FALSE, name |-> response.name, message |-> response.message,
        path |-> err.path, code |-> response.code, data |-> response.data]

\* lines 233-242: the entry built from one element of a thrown array
ArrayEntry(err) == ArrayEntryOf(getResponse(err), err)

\* a variant of EntryObject that loses the path of the element
EntryObjectNoPath(e) ==
  [name |-> e.name, message |-> e.message, path |-> Undef, code |-> e.code, data |-> e.data]

\* the object literal of lines 235-241
EntryObject(e) ==
  [name |-> e.name, message |-> e.message, path |-> e.path, code |-> e.code, data |-> e.data]

\* what self.logError throws when the structured logger fails
LogFailure == ErrObj("Error", "log failed", NoData, Undef, <<"Error: log failed", "at log">>, Undef)

\* lines 269-272: the catch block prefixes the message and reports the error
\* on the console
ConsoleError(e) ==
  [op |-> "console.error", message |-> "Structured logging error: " \o e.message]

\* lines 253-274: the call of self.logError, the error level method of the
\* module's logger, and, when it throws, of console.error
logError(response, error, logOk) ==
  <<[op |-> "logError", level |-> "error",
     event |-> "api-error" \o (IF response.code = 500 THEN "" ELSE "-" \o response.name),
     msg |-> IF response.code = 500 THEN error.message ELSE response.message,
     name |-> response.name, status |-> response.code,
     stack |-> IF error.stack = <<>> THEN <<>> ELSE Tail(error.stack),
     cause |-> error.cause, errorPath |-> response.path,
     data |-> response.data, threw |-> ~logOk]>>
  \o (IF logOk THEN <<>> ELSE <<ConsoleError(LogFailure)>>)

\* a variant of SendBody that sends the whole normalized response
SendBodyWhole(response) == response

\* lines 248-252: the body handed to res.send
SendBody(response) ==
  [name |-> response.name, data |-> response.data, message |-> response.message]

\* one call of res.send: the response as it stands when send is called
SendCall(r, body, sendOk) ==
  [op |-> "send", body |-> body, statusCode |-> r.statusCode,
   cacheControl |-> r.cacheControl, etag |-> r.etag, threw |-> ~sendOk]

\* req.res.status(code)
SetStatus(r, code) == [r EXCEPT !.statusCode = code]

\* a variant of Respond that logs after the response was sent
RespondLogLast(r, tr, response, err, logOk, sendOk) ==
  IF response.threw THEN [res |-> r, trace |-> tr, threw |-> TRUE]
  ELSE [res |-> SetStatus(r, response.code),
        trace |-> tr \o <<[op |-> "status", code |-> response.code],
                          SendCall(SetStatus(r, response.code), SendBody(response), sendOk)>>
                     \o logError(response, err, logOk),
        threw |-> ~sendOk]

\* a variant of Respond without the try and catch around the logger
RespondNoCatch(r, tr, response, err, logOk, sendOk) ==
  IF response.threw THEN [res |-> r, trace |-> tr, threw |-> TRUE]
  ELSE IF ~logOk THEN [res |-> r, trace |-> tr \o <<logError(response, err, FALSE)[1]>>,
                       threw |-> TRUE]
  ELSE [res |-> SetStatus(r, response.code),
        trace |-> tr \o logError(response, err, logOk)
                     \o <<[op |-> "status", code |-> response.code],
                          SendCall(SetStatus(r, response.code), SendBody(response), sendOk)>>,
        threw |-> ~sendOk]

\* lines 246-252, given the response of line 245
Respond(r, tr, response, err, logOk, sendOk) ==
  IF response.threw THEN [res |-> r, trace |-> tr, threw |-> TRUE]
  ELSE [res |-> SetStatus(r, response.code),
        trace |-> tr \o logError(response, err, logOk)
                     \o <<[op |-> "status", code |-> response.code],
                          SendCall(SetStatus(r, response.code), SendBody(response), sendOk)>>,
        threw |-> ~sendOk]

\* lines 245-252
SendOne(r, tr, err, logOk, sendOk) == Respond(r, tr, getResponse(err), err, logOk, sendOk)

\* lines 232-252, given the entries of the thrown array
SendArray(r, tr, entries, logOk, sendOk) ==
  IF AnyThrew(entries) THEN [res |-> r, trace |-> tr, threw |-> TRUE]
  ELSE SendOne(r, tr, aposError("invalid", DataErrors(SeqMap(EntryObject, entries))),
               logOk, sendOk)

\* lines 226-252, for a request that has a res.  The result is the response
\* object and the trace after the call, and whether the call threw.
routeSendError(r, tr, err, logOk, sendOk) ==
  IF IsArray(err)
    THEN SendArray(r, tr, SeqMap(ArrayEntry, err.items), logOk, sendOk)
    ELSE SendOne(r, tr, err, logOk, sendOk)

\* ------------------------------------------------------------------------
\* Strings as sequences of characters
\* ------------------------------------------------------------------------

Colon == ":"
Digits == <<"0", "1", "2", "3", "4", "5", "6", "7", "8", "9">>
IsDigit(c) == \E d \in 1..10 : Digits[d] = c
DigitValue(c) == (CHOOSE d \in 1..10 : Digits[d] = c) - 1

\* Number.prototype.toString for a natural number
RECURSIVE NumToChars(_)
NumToChars(n) ==
  IF n < 10 THEN <<Digits[n + 1]>>
  ELSE NumToChars(n \div 10) \o <<Digits[(n % 10) + 1]>>

\* String.prototype.split(':')
RECURSIVE Split(_)
Split(s) ==
  IF \A i \in 1..Len(s) : s[i] # Colon THEN <<s>>
  ELSE LET k == CHOOSE i \in 1..Len(s) : s[i] = Colon /\ \A j \in 1..(i - 1) : s[j] # Colon
       IN <<SubSeq(s, 1, k - 1)>> \o Split(SubSeq(s, k + 1, Len(s)))

\* Array.prototype.join(':') of an array of strings
RECURSIVE Join(_)
Join(parts) ==
  IF parts = <<>> THEN <<>>
  ELSE IF Len(parts) = 1 THEN parts[1]
  ELSE parts[1] \o <<Colon>> \o Join(Tail(parts))

\* A JavaScript number: NaN, or an integer
NaN == [nan |-> TRUE, v |-> 0]
Num(n) == [nan |-> FALSE, v |-> n]

RECURSIVE CharsValue(_)
CharsValue(s) ==
  IF s = <<>> THEN 0
  ELSE 10 * CharsValue(SubSeq(s, 1, Len(s) - 1)) + DigitValue(s[Len(s)])

\* ToNumber of an array element that is a string of this alphabet or is
\* missing: undefined -> NaN, '' -> 0, decimal digits -> their value
ToNumber(parts, i) ==
  IF i > Len(parts) THEN NaN
  ELSE IF \A j \in 1..Len(parts[i]) : IsDigit(parts[i][j]) THEN Num(CharsValue(parts[i]))
  ELSE NaN

\* ------------------------------------------------------------------------
\* Cache helpers
\* ------------------------------------------------------------------------

\* milliseconds per second, the divisor of line 657
MsPerSec == 1000

\* _.isEmpty of a session value: null and objects without keys are empty
isEmpty(val) == val \in {"null", "{}"}

\* a variant of isSafeToCache that forgets the status check
isSafeToCacheNoStatus(rq, rs) ==
  IF rq.user THEN FALSE
  ELSE \A key \in DOMAIN rq.session :
         key = "cookie" \/ (key \in {"flash", "passport"} /\ isEmpty(rq.session[key]))

\* lines 598-613
isSafeToCache(rq, rs) ==
  IF rq.user THEN FALSE
  ELSE IF rs.statusCode >= 400 THEN FALSE
  ELSE \A key \in DOMAIN rq.session :
         key = "cookie" \/ (key \in {"flash", "passport"} /\ isEmpty(rq.session[key]))

\* a maxAge argument: a number (possibly NaN), a string or undefined
NumberArg(n) == [type |-> "number", nan |-> FALSE, v |-> n]
NaNArg == [type |-> "number", nan |-> TRUE, v |-> 0]
StringArg(n) == [type |-> "string", nan |-> FALSE, v |-> n]
UndefinedArg == [type |-> "undefined", nan |-> FALSE, v |-> 0]

\* the template literal `max-age=${maxAge}` for a number
MaxAgeValue(maxAge) ==
  "max-age=" \o (IF maxAge.nan THEN "NaN" ELSE ToString(maxAge.v))

\* a variant of setMaxAge that does not consult isSafeToCache
setMaxAgeAlways(rq, rs, maxAge) ==
  IF maxAge.type # "number" THEN rs
  ELSE [rs EXCEPT !.cacheControl = MaxAgeValue(maxAge)]

\* lines 615-624: the response object after the call
setMaxAge(rq, rs, maxAge) ==
  IF maxAge.type # "number" THEN rs
  ELSE [rs EXCEPT !.cacheControl =
          IF isSafeToCache(rq, rs) THEN MaxAgeValue(maxAge) ELSE "no-store"]

\* a document: undefined, or an object with or without cacheInvalidatedAt
NoDoc == [kind |-> "undefined", hasInvalidatedAt |-> FALSE, cacheInvalidatedAt |-> 0]
Doc(t) == [kind |-> "object", hasInvalidatedAt |-> TRUE, cacheInvalidatedAt |-> t]
DocNoStamp == [kind |-> "object", hasInvalidatedAt |-> FALSE, cacheInvalidatedAt |-> 0]

\* self.apos.asset.getReleaseId()
getReleaseId == <<"a">>

\* line 627
Context(rq, doc) ==
  IF doc.kind = "object" THEN doc
  ELSE IF rq.data.piece.kind = "object" THEN rq.data.piece
  ELSE rq.data.page

\* lines 629-638, given the context of line 627
PartsOf(context) ==
  IF context.kind # "object" \/ ~context.hasInvalidatedAt THEN <<>>
  ELSE <<getReleaseId, NumToChars(context.cacheInvalidatedAt)>>

\* lines 626-639: <<>> stands for null
generateETagParts(rq, doc) == PartsOf(Context(rq, doc))

\* lines 641-643
setETag(rs, eTagParts) == [rs EXCEPT !.etag = [set |-> TRUE, value |-> Join(eTagParts)]]

\* clientETagParts[i] === eTagParts[i], where a missing element is undefined
PartEquals(clientParts, parts, i) ==
  i <= Len(clientParts) /\ clientParts[i] = parts[i]

\* clientETagAge > maxAge, with clientETagAge = (now - clientSetAt) / 1000:
\* false when either side is NaN, and otherwise decided on the integers
\* by multiplying both sides by 1000
AgeExceeds(now, clientSetAt, maxAge) ==
  /\ ~clientSetAt.nan
  /\ maxAge.type = "number" /\ ~maxAge.nan
  /\ now - clientSetAt.v > maxAge.v * MsPerSec

\* lines 652-654, given the parts of both sides
doesETagMatch(clientETagParts, eTagParts) ==
  /\ PartEquals(clientETagParts, eTagParts, 1)
  /\ PartEquals(clientETagParts, eTagParts, 2)

\* line 652
ClientParts(rq) == IF rq.ifNoneMatch # <<>> THEN Split(rq.ifNoneMatch) ELSE <<>>

\* a variant of Compare that refreshes clientSetAt on a hit
CompareRefresh(rs, eTagParts, clientETagParts, maxAge, now) ==
  IF \/ ~doesETagMatch(clientETagParts, eTagParts)
     \/ AgeExceeds(now, ToNumber(clientETagParts, 3), maxAge)
    THEN [res |-> setETag(rs, eTagParts \o <<NumToChars(now)>>), value |-> FALSE]
    ELSE [res |-> setETag(rs, eTagParts \o <<NumToChars(now)>>), value |-> TRUE]

\* lines 652-665, given the parts of both sides
Compare(rs, eTagParts, clientETagParts, maxAge, now) ==
  IF \/ ~doesETagMatch(clientETagParts, eTagParts)
     \/ AgeExceeds(now, ToNumber(clientETagParts, 3), maxAge)
    THEN [res |-> setETag(rs, eTagParts \o <<NumToChars(now)>>), value |-> FALSE]
    ELSE [res |-> setETag(rs, clientETagParts), value |-> TRUE]

\* a variant of Check that consults only the parts, not isSafeToCache
CheckPartsOnly(rq, rs, eTagParts, maxAge, now) ==
  IF eTagParts = <<>>
    THEN [res |-> rs, value |-> FALSE]
    ELSE Compare(rs, eTagParts, ClientParts(rq), maxAge, now)

\* lines 648-665, given the parts of line 646
Check(rq, rs, eTagParts, maxAge, now) ==
  IF eTagParts = <<>> \/ ~isSafeToCache(rq, rs)
    THEN [res |-> rs, value |-> FALSE]
    ELSE Compare(rs, eTagParts, ClientParts(rq), maxAge, now)

\* lines 645-666: the response object after the call and the returned value
checkETag(rq, rs, doc, maxAge, now) ==
  Check(rq, rs, generateETagParts(rq, doc), maxAge, now)

\* ------------------------------------------------------------------------
\* Requests, responses and the inputs of the model
\* ------------------------------------------------------------------------

BoundedSeqs(S, n) == UNION {[1..k -> S] : k \in 0..n}

NoDataProp == [piece |-> NoDoc, page |-> NoDoc]

Request(kind, method, user, session, ifNoneMatch, data) ==
  [kind |-> kind, method |-> method, user |-> user, session |-> session,
   ifNoneMatch |-> ifNoneMatch, data |-> data]

\* a session that holds only the cookie bookkeeping key
CookieSession == "cookie" :> "{k}"

NoReq == Request("none", "GET", FALSE, CookieSession, <<>>, NoDataProp)

\* the response object of a new request: status 200, no header written
FreshRes == [statusCode |-> 200, cacheControl |-> Undef, etag |-> [set |-> FALSE, value |-> <<>>]]

NoOutcome == [type |-> "none"]
NoRet == [fn |-> "none"]

RouteKinds == {"apiRoutes", "renderRoutes"}
Methods == {"GET", "POST"}

\* sessions: any subset of the keys, each holding null, {} or a non-empty
\* object; the cookie key always holds the cookie object
SessionKeys == {"cookie", "flash", "passport", "cart"}
SessionVals == {"null", "{}", "{k}"}
Sessions ==
  {s \in UNION {[K -> SessionVals] : K \in SUBSET SessionKeys} :
     "cookie" \in DOMAIN s => s["cookie"] = "{k}"}

SomeSessions == {CookieSession, CookieSession @@ ("cart" :> "{k}")}

StatusCodes == {200, 399, 400, 404}

MaxAges == {NumberArg(0), NumberArg(60), NaNArg, StringArg(60), UndefinedArg}

\* thrown values
Names == DOMAIN errors \cup {"boom", Undef}
Msgs == {"m1", "m2"}
LeafData == {NoData, DataObj("d1")}
Paths == {Undef, "p1"}
Stacks == {<<>>, <<"Error: m", "at handler">>}
Causes == {Undef, "c1"}

LeafErrs ==
  {ErrObj(n, m, d, p, s, c) :
     n \in Names, m \in Msgs, d \in LeafData, p \in Paths, s \in Stacks, c \in Causes}

PlainSubErrs ==
  {ErrObj(n, "m1", d, p, <<>>, Undef) :
     n \in {"required", "boom", "invalid"}, d \in LeafData, p \in Paths}

NestedSubErrs ==
  {ErrObj("invalid", "m1", DataErrors(<<e>>), Undef, <<>>, Undef) :
     e \in {ErrObj("boom", "m2", DataObj("d1"), "p1", <<>>, Undef),
            ErrObj("required", "m2", NoData, "p1", <<>>, Undef)}}

SubErrs == PlainSubErrs \cup NestedSubErrs \cup {JsNull}

ErrSeqs == BoundedSeqs(SubErrs, MaxErrors)

CompositeErrs ==
  {ErrObj(n, "m1", DataErrors(es), Undef, <<>>, Undef) :
     n \in {"invalid", "required", "boom"}, es \in ErrSeqs}

ArrayErrs == {JsArray(es) : es \in ErrSeqs}

AllErrs == LeafErrs \cup CompositeErrs \cup ArrayErrs \cup {JsNull, JsUndefined, JsString}

SomeErrs ==
  {ErrObj("notfound", "m1", NoData, Undef, <<>>, Undef),
   ErrObj("boom", "m1", DataObj("d1"), Undef, <<"Error: m", "at handler">>, Undef),
   JsNull,
   JsArray(<<ErrObj("required", "m1", NoData, "p1", <<>>, Undef),
             ErrObj("boom", "m1", NoData, Undef, <<>>, Undef)>>)}

Results == {[value |-> "r1"], [value |-> "r2"]}

\* ------------------------------------------------------------------------
\* Modules: registration and route URLs
\* ------------------------------------------------------------------------

\* Longest route name drawn from the alphabet of route names.
MaxName == 2

Slash == "/"

\* the prefix of every action: '/api/v1/'
ApiV1 == <<"/", "a", "p", "i", "/", "v", "1", "/">>

\* a module as constructed: its name (self.__meta.name), its alias
\* (self.options.alias, Undef when it has none), its sections as declared,
\* and the properties init sets later
Module(name, alias, routes, renderRoutes, apiRoutes, restApiRoutes, handlers) ==
  [name |-> name, alias |-> alias, phase |-> "constructed",
   action |-> <<>>, _routes |-> <<>>,
   routes |-> routes, renderRoutes |-> renderRoutes, apiRoutes |-> apiRoutes,
   restApiRoutes |-> restApiRoutes, handlers |-> handlers]

\* the registry object before any module is registered: apos.modules is
\* empty, and the other top-level properties are the core features
NoApos ==
  [modules |-> <<>>,
   top |-> ("modules" :> "core") @@ ("util" :> "core"),
   eventHandlers |-> <<>>]

\* f with key k set to v, as the assignment f[k] = v
Assign(f, k, v) == (k :> v) @@ f

\* a variant of register that binds the alias without looking for an
\* existing property
registerNoCheck(ap, name, alias) ==
  IF alias = Undef
    THEN [apos |-> [ap EXCEPT !.modules = Assign(@, name, name)], threw |-> FALSE]
    ELSE [apos |-> [ap EXCEPT !.modules = Assign(@, name, name),
                              !.top = Assign(@, alias, name)],
          threw |-> FALSE]

\* lines 50-56: the registry after the module is stored, and whether the
\* alias check threw
register(ap, name, alias) ==
  IF alias = Undef
    THEN [apos |-> [ap EXCEPT !.modules = Assign(@, name, name)], threw |-> FALSE]
    ELSE IF alias \in DOMAIN ap.top
      THEN [apos |-> [ap EXCEPT !.modules = Assign(@, name, name)], threw |-> TRUE]
      ELSE [apos |-> [ap EXCEPT !.modules = Assign(@, name, name),
                                !.top = Assign(@, alias, name)],
            threw |-> FALSE]

\* lines 837-839: `/api/v1/${self.__meta.name}`
enableAction(name) == ApiV1 \o name

\* lines 58-87, for a module whose registration did not throw
Initialized(s) ==
  [s EXCEPT !.phase = "initialized", !.action = enableAction(s.name), !._routes = <<>>]

\* lines 34-88: the constructor's call of init for module m
init(m) ==
  /\ self[m].phase = "constructed"
  /\ \E r \in {register(apos, self[m].name, self[m].alias)} :
       /\ apos' = r.apos
       /\ self' = [self EXCEPT ![m] = IF r.threw THEN [@ EXCEPT !.phase = "failed"]
                                      ELSE Initialized(@)]
       /\ trace' = trace \o <<[op |-> "init", name |-> self[m].name,
                               alias |-> self[m].alias, threw |-> r.threw]>>
  /\ UNCHANGED <<emission, ret>>
  /\ UNCHANGED reqVars

\* the letters that have a lower case form, and that form
LowerCase == ("A" :> "a") @@ ("S" :> "s")
IsUpper(c) == c \in DOMAIN LowerCase
LowerLetters ==
  {"a", "b", "c", "d", "e", "f", "g", "h", "i", "j", "k", "l", "m",
   "n", "o", "p", "q", "r", "s", "t", "u", "v", "w", "x", "y", "z"}
IsAlnum(c) == IsUpper(c) \/ c \in LowerLetters \/ IsDigit(c)

\* self.apos.util.cssName: identifier case to hyphenated case.  An upper
\* case letter after the first character starts a new word, and characters
\* that are not letters or digits separate words.
RECURSIVE cssNameFrom(_, _, _)
cssNameFrom(camel, i, dash) ==
  IF i > Len(camel) THEN <<>>
  ELSE IF ~IsAlnum(camel[i]) THEN cssNameFrom(camel, i + 1, TRUE)
  ELSE (IF dash \/ (IsUpper(camel[i]) /\ i > 1) THEN <<"-">> ELSE <<>>)
       \o <<IF IsUpper(camel[i]) THEN LowerCase[camel[i]] ELSE camel[i]>>
       \o cssNameFrom(camel, i + 1, FALSE)

cssName(camel) == cssNameFrom(camel, 1, FALSE)

\* name.substring(0, 1)
FirstChar(name) == IF name = <<>> THEN <<>> ELSE <<name[1]>>

\* name.match(/[:/*]/)
HasUrlChar(name) == \E i \in DOMAIN name : name[i] \in {":", "/", "*"}

\* a variant of getRouteUrl that takes any name with a slash as a URL
getRouteUrlAnySlash(action, name) ==
  IF \E i \in DOMAIN name : name[i] = Slash THEN name
  ELSE IF HasUrlChar(name) THEN action \o <<Slash>> \o name
  ELSE action \o <<Slash>> \o cssName(name)

\* lines 715-734, for a module whose self.action is action
getRouteUrl(action, name) ==
  IF FirstChar(name) = <<Slash>> THEN name
  ELSE IF HasUrlChar(name) THEN action \o <<Slash>> \o name
  ELSE action \o <<Slash>> \o cssName(name)

\* a call of self.getRouteUrl(name) on an initialized module
callGetRouteUrl(RouteNames) ==
  /\ \E m \in DOMAIN self, name \in RouteNames :
       /\ self[m].phase = "initialized"
       /\ ret' = [fn |-> "getRouteUrl", module |-> m, name |-> name,
                  value |-> getRouteUrl(self[m].action, name)]
  /\ UNCHANGED <<trace, apos, self, emission>>
  /\ UNCHANGED reqVars

\* ------------------------------------------------------------------------
\* Route declarations and their compilation
\* ------------------------------------------------------------------------

\* Longest handler array of a route declaration.
MaxChain == 2

\* A declared handler function, known by its identity.
Fn(id) == [kind |-> "function", id |-> id]

\* A handler array: middleware functions, then the route function.
Arr(items) == [kind |-> "array", items |-> items]

\* A route with extra configuration: { before, route }.
Config(route, before) == [kind |-> "object", route |-> route, before |-> before]

\* One property of a section: self[section][method][name] = config.  A
\* section is the sequence of its properties in the order of its keys.
Entry(method, name, config) == [method |-> method, name |-> name, config |-> config]

Str_id == <<":", "_", "i", "d">>

\* line 185: async req => route(req, req.params._id)
WithId(route) == [kind |-> "function", id |-> "wrapId", route |-> route]

\* a variant of wrapId that rewrites every entry of a handler array
wrapIdEvery(route) ==
  IF route.kind = "array"
    THEN Arr([i \in DOMAIN route.items |-> WithId(route.items[i])])
    ELSE WithId(route)

\* lines 178-186.  The last entry of an empty array is undefined.
wrapId(route) ==
  IF route.kind = "array"
    THEN Arr((IF route.items = <<>> THEN <<>>
              ELSE SubSeq(route.items, 1, Len(route.items) - 1))
             \o <<WithId(IF route.items = <<>> THEN JsUndefined
                         ELSE route.items[Len(route.items)])>>)
    ELSE WithId(route)

\* the place of the last property of self[section][method]
LastOfMethod(section, method) ==
  CHOOSE i \in DOMAIN section :
    section[i].method = method /\ \A j \in (i + 1)..Len(section) : section[j].method # method

\* self.apiRoutes[method] = self.apiRoutes[method] || {} followed by
\* self.apiRoutes[method][name] = config: an existing property keeps its
\* place, a new name follows the names of its method, a new method follows
\* the other methods
SetRoute(section, method, name, config) ==
  IF \E i \in DOMAIN section : section[i].method = method /\ section[i].name = name
    THEN [i \in DOMAIN section |->
            IF section[i].method = method /\ section[i].name = name
              THEN Entry(method, name, config) ELSE section[i]]
  ELSE IF \E i \in DOMAIN section : section[i].method = method
    THEN SubSeq(section, 1, LastOfMethod(section, method))
         \o <<Entry(method, name, config)>>
         \o SubSeq(section, LastOfMethod(section, method) + 1, Len(section))
  ELSE Append(section, Entry(method, name, config))

\* lines 154-177: the shorthand names in the order the code looks at them,
\* with the method and name each becomes and whether wrapId is applied
RestShorthand ==
  <<[short |-> "getAll", method |-> "get", name |-> <<>>, wrap |-> FALSE],
    [short |-> "getOne", method |-> "get", name |-> Str_id, wrap |-> TRUE],
    [short |-> "delete", method |-> "delete", name |-> Str_id, wrap |-> TRUE],
    [short |-> "patch", method |-> "patch", name |-> Str_id, wrap |-> TRUE],
    [short |-> "put", method |-> "put", name |-> Str_id, wrap |-> TRUE],
    [short |-> "post", method |-> "post", name |-> <<>>, wrap |-> FALSE]>>

\* one of the six if statements of lines 154-177
RestStep(apiRoutes, rest, step) ==
  IF step.short \in DOMAIN rest
    THEN SetRoute(apiRoutes, step.method, step.name,
                  IF step.wrap THEN wrapId(rest[step.short]) ELSE rest[step.short])
    ELSE apiRoutes

RECURSIVE RestFrom(_, _, _)
RestFrom(apiRoutes, rest, k) ==
  IF k > Len(RestShorthand) THEN apiRoutes
  ELSE RestFrom(RestStep(apiRoutes, rest, RestShorthand[k]), rest, k + 1)

\* lines 153-187: self after the shorthand is added to self.apiRoutes
compileRestApiRoutesToApiRoutes(s) ==
  [s EXCEPT !.apiRoutes = RestFrom(s.apiRoutes, s.restApiRoutes, 1)]

\* lines 106-112
RouteOf(config) == IF config.kind = "object" THEN config.route ELSE config

\* config.before, undefined for a function and for an array
BeforeOf(config) == IF config.kind = "object" THEN config.before ELSE Undef

\* lines 118 and 139: only these sections have a wrapper
HasWrapper(section) == section \in {"apiRoutes", "renderRoutes"}

\* lines 119 and 140: self.routeWrappers[section](name, fn)
Wrapper(section, name, fn) == [kind |-> "function", id |-> section, name |-> name, route |-> fn]

\* lines 117-121: the handler array after its last entry is replaced
WrapLast(section, name, items) ==
  IF items = <<>> \/ ~HasWrapper(section) THEN items
  ELSE [items EXCEPT ![Len(items)] = Wrapper(section, name, @)]

\* lines 126-136: the function that runs a handler array
Chain(items) == [kind |-> "function", id |-> "chain", route |-> Arr(items)]

\* lines 116-148: the function pushed for a route
CompiledFn(section, name, route) ==
  IF route.kind = "array" THEN Chain(WrapLast(section, name, route.items))
  ELSE IF HasWrapper(section) THEN Wrapper(section, name, route)
  ELSE route

\* lines 122-126 and 142-147: the object pushed onto self._routes
CompiledRoute(section, action, e) ==
  [before |-> BeforeOf(e.config), method |-> e.method,
   url |-> getRouteUrl(action, e.name),
   route |-> CompiledFn(section, e.name, RouteOf(e.config))]

\* line 120: the declared handler array is changed in place
Redeclared(section, e) ==
  IF RouteOf(e.config).kind # "array" THEN e
  ELSE IF e.config.kind = "object"
    THEN [e EXCEPT !.config.route.items = WrapLast(section, e.name, @)]
    ELSE [e EXCEPT !.config.items = WrapLast(section, e.name, @)]

\* lines 109 and 123/143: config.route of null and config.before of
\* undefined throw a TypeError
Malformed(config) == IsNullish(config)

\* the place of the first property of the section whose compilation throws,
\* or the place after the last property
FirstMalformed(section) ==
  IF \E i \in DOMAIN section : Malformed(section[i].config)
    THEN CHOOSE i \in DOMAIN section :
           Malformed(section[i].config)
           /\ \A j \in 1..(i - 1) : ~Malformed(section[j].config)
    ELSE Len(section) + 1

\* lines 103-150 for the properties before place k; the TypeError of
\* property k, if any, ends the compilation
compileSectionUpTo(s, section, k) ==
  [s EXCEPT
     !._routes = @ \o [i \in 1..(k - 1) |->
                         CompiledRoute(section, s.action, s[section][i])],
     ![section] = [i \in DOMAIN s[section] |->
                     IF i < k THEN Redeclared(section, s[section][i]) ELSE s[section][i]],
     !.phase = IF k <= Len(s[section]) THEN "threw" ELSE @]

\* lines 102-151: self after the routes of the section are pushed; nothing
\* happens when an earlier call made by the same handler threw
compileSectionRoutes(s, section) ==
  IF s.phase = "threw" THEN s
  ELSE compileSectionUpTo(s, section, FirstMalformed(s[section]))

\* the value of self[section][method][name]
ConfigAt(section, method, name) ==
  (CHOOSE e \in {section[i] : i \in DOMAIN section} : e.method = method /\ e.name = name).config

\* lines 156 and 176: self.apiRoutes.get[''] and self.apiRoutes.post[''] are
\* the very objects of self.restApiRoutes, so that line 120 changes both
SharedArrays(s) ==
  [s EXCEPT !.restApiRoutes =
     [k \in DOMAIN s.restApiRoutes |->
        IF k = "getAll" THEN ConfigAt(s.apiRoutes, "get", <<>>)
        ELSE IF k = "post" THEN ConfigAt(s.apiRoutes, "post", <<>>)
        ELSE s.restApiRoutes[k]]]

\* a variant of compileAllRoutes that compiles apiRoutes first
compileAllRoutesApiFirst(s) ==
  SharedArrays(
    compileSectionRoutes(
      compileSectionRoutes(
        compileSectionRoutes(compileRestApiRoutesToApiRoutes(s), "apiRoutes"),
        "routes"),
      "renderRoutes"))

\* lines 978-990: self after the handler of the compileRoutes event
compileAllRoutes(s) ==
  SharedArrays(
    compileSectionRoutes(
      compileSectionRoutes(
        compileSectionRoutes(compileRestApiRoutesToApiRoutes(s), "routes"),
        "renderRoutes"),
      "apiRoutes"))

\* ------------------------------------------------------------------------
\* Event handlers
\* ------------------------------------------------------------------------

\* Most handlers a module declares besides those of the base class.
MaxHandlers == 2

Ev_moduleReady == "moduleReady"
Ev_modulesRegistered == "apostrophe:modulesRegistered"
Ev_compileRoutes == "@apostrophecms/express:compileRoutes"

\* one property of the handlers section: handlers[eventName][handlerName]
HandlerEntry(eventName, handlerName) == [event |-> eventName, handler |-> handlerName]

\* lines 961-991: the handlers section of the base class, in key order
BaseHandlers ==
  <<HandlerEntry(Ev_moduleReady, "executeAfterModuleReadyTask"),
    HandlerEntry(Ev_modulesRegistered, "addHelpers"),
    HandlerEntry(Ev_compileRoutes, "compileAllRoutes")>>

\* the handlers registered for an event, in registration order
HandlersOf(eventHandlers, eventName) ==
  IF eventName \in DOMAIN eventHandlers THEN eventHandlers[eventName] ELSE <<>>

\* self.on(eventName, handlerName, fn): the registration is appended to the
\* registrations of the event; registering the same handler name of the same
\* module again replaces the function and keeps the place
on(eventHandlers, m, eventName, handlerName) ==
  IF \E i \in DOMAIN HandlersOf(eventHandlers, eventName) :
       HandlersOf(eventHandlers, eventName)[i] = [module |-> m, handler |-> handlerName]
    THEN eventHandlers
    ELSE Assign(eventHandlers, eventName,
                Append(HandlersOf(eventHandlers, eventName),
                       [module |-> m, handler |-> handlerName]))

RECURSIVE addHandlersFrom(_, _, _, _)
addHandlersFrom(eventHandlers, m, object, k) ==
  IF k > Len(object) THEN eventHandlers
  ELSE addHandlersFrom(on(eventHandlers, m, object[k].event, object[k].handler),
                       m, object, k + 1)

RECURSIVE addHandlersDownFrom(_, _, _, _)
addHandlersDownFrom(eventHandlers, m, object, k) ==
  IF k < 1 THEN eventHandlers
  ELSE addHandlersDownFrom(on(eventHandlers, m, object[k].event, object[k].handler),
                           m, object, k - 1)

\* a variant of addHandlers that walks the section from its last property
addHandlersReversed(eventHandlers, m, object) ==
  addHandlersDownFrom(eventHandlers, m, object, Len(object))

\* lines 328-334: the registrations after the two forEach loops
addHandlers(eventHandlers, m, object) == addHandlersFrom(eventHandlers, m, object, 1)

\* One property of self.tasks: tasks[name] = { afterModuleInit,
\* afterModuleReady, exitAfter, task }.  exitAfter is "true", "false" or
\* undefined.
Task(name, afterModuleInit, afterModuleReady, exitAfter) ==
  [name |-> name, afterModuleInit |-> afterModuleInit,
   afterModuleReady |-> afterModuleReady, exitAfter |-> exitAfter]

\* line 846: self.tasks || {}
TasksOf(s) == IF "tasks" \in DOMAIN s THEN s.tasks ELSE <<>>

\* line 848: `${self.__meta.name}:${name}`
CommandOf(moduleName, taskName) == moduleName \o <<Colon>> \o taskName

\* a variant of IsInvoked that does not look at the phase
IsInvokedAnyPhase(ap, s, t, when) == ap.argv = CommandOf(s.name, t.name)

\* lines 847-848: the task is flagged for the phase and is the command
IsInvoked(ap, s, t, when) == t[when] /\ ap.argv = CommandOf(s.name, t.name)

\* the calls recorded for a task: info.task(argv) and self.apos._exit()
TaskCall(s, t, when, ok) ==
  [op |-> "task", module |-> s.name, name |-> t.name, when |-> when, threw |-> ~ok]

ExitCall == [op |-> "exit"]

\* lines 846-885: the loop from the k-th task on.  A task that throws ends
\* the loop; after a task that returns, _exit is called unless exitAfter is
\* false, and the loop goes on if _exit returns.
RECURSIVE executeTasksFrom(_, _, _, _, _, _)
executeTasksFrom(ap, tr, s, when, ok, k) ==
  IF k > Len(TasksOf(s)) THEN [apos |-> ap, trace |-> tr, threw |-> FALSE]
  ELSE IF ~IsInvoked(ap, s, TasksOf(s)[k], when)
    THEN executeTasksFrom(ap, tr, s, when, ok, k + 1)
  ELSE IF ~ok
    THEN [apos |-> ap, trace |-> Append(tr, TaskCall(s, TasksOf(s)[k], when, FALSE)),
          threw |-> TRUE]
  ELSE IF TasksOf(s)[k].exitAfter # "false"
    THEN executeTasksFrom(ap, tr \o <<TaskCall(s, TasksOf(s)[k], when, TRUE), ExitCall>>,
                          s, when, ok, k + 1)
  ELSE executeTasksFrom([ap EXCEPT !.taskRan = TRUE],
                        Append(tr, TaskCall(s, TasksOf(s)[k], when, TRUE)),
                        s, when, ok, k + 1)

\* lines 845-887: the registry object and the calls after the loop, and
\* whether a task threw
executeAfterModuleTask(ap, tr, s, when, ok) == executeTasksFrom(ap, tr, s, when, ok, 1)

\* lines 90-94: the handlers of the module are registered once init is
\* over, and the task of the command line flagged afterModuleInit is run
afterAllSections(m) ==
  /\ self[m].phase = "initialized"
  /\ \E ok \in BOOLEAN :
       \E r \in {executeAfterModuleTask(
                   [apos EXCEPT !.eventHandlers = addHandlers(@, m, self[m].handlers)],
                   trace, self[m], "afterModuleInit", ok)} :
          /\ apos' = r.apos
          /\ trace' = r.trace
          /\ self' = [self EXCEPT ![m].phase = IF r.threw THEN "threw" ELSE "ready"]
  /\ UNCHANGED <<emission, ret>>
  /\ UNCHANGED reqVars

\* emit(eventName): once every module is ready, the handlers registered for
\* the event are called one after the other
emit(Events) ==
  /\ emission.event = "none"
  /\ \A m \in DOMAIN self : self[m].phase = "ready"
  /\ \E e \in Events \ emission.emitted :
       emission' = [emission EXCEPT !.event = e, !.i = 1, !.running = FALSE]
  /\ UNCHANGED <<trace, apos, self, ret>>
  /\ UNCHANGED reqVars

\* the handler the emission has reached
Reached == HandlersOf(apos.eventHandlers, emission.event)[emission.i]

\* the handler the emission has reached is called
BeginCall ==
  [op |-> "begin", event |-> emission.event, module |-> Reached.module,
   handler |-> Reached.handler]

\* the emission calls the next handler, which runs until it returns its
\* promise; compileAllRoutes has done all its work by then, and so has
\* executeAfterModuleReadyTask (lines 964-966)
invokeHandler ==
  /\ emission.event # "none" /\ ~emission.running
  /\ emission.i <= Len(HandlersOf(apos.eventHandlers, emission.event))
  /\ IF Reached.handler = "executeAfterModuleReadyTask"
       THEN \E ok \in BOOLEAN :
              \E r \in {executeAfterModuleTask(apos, Append(trace, BeginCall),
                                               self[Reached.module],
                                               "afterModuleReady", ok)} :
                 /\ apos' = r.apos
                 /\ trace' = r.trace
                 /\ self' = IF r.threw THEN [self EXCEPT ![Reached.module].phase = "threw"]
                            ELSE self
       ELSE /\ apos' = apos
            /\ trace' = Append(trace, BeginCall)
            /\ self' = IF Reached.handler = "compileAllRoutes"
                         THEN [self EXCEPT ![Reached.module] = compileAllRoutes(@)]
                         ELSE self
  /\ emission' = [emission EXCEPT !.running = TRUE]
  /\ UNCHANGED ret
  /\ UNCHANGED reqVars

\* the promise of the handler is fulfilled and the emission moves on, or
\* the handler threw, its promise is rejected and so is that of emit
handlerSettles ==
  /\ emission.event # "none" /\ emission.running
  /\ IF self[Reached.module].phase = "threw"
       THEN /\ trace' = Append(trace, [op |-> "rejected", event |-> emission.event,
                                       module |-> Reached.module,
                                       handler |-> Reached.handler])
            /\ emission' = [event |-> "none", i |-> 0, running |-> FALSE,
                            emitted |-> emission.emitted \cup {emission.event}]
       ELSE /\ trace' = Append(trace, [op |-> "end", event |-> emission.event,
                                       module |-> Reached.module,
                                       handler |-> Reached.handler])
            /\ emission' = [emission EXCEPT !.running = FALSE, !.i = @ + 1]
  /\ UNCHANGED <<apos, self, ret>>
  /\ UNCHANGED reqVars

\* every handler of the event has been called: emit returns
emitReturns ==
  /\ emission.event # "none" /\ ~emission.running
  /\ emission.i > Len(HandlersOf(apos.eventHandlers, emission.event))
  /\ emission' = [event |-> "none", i |-> 0, running |-> FALSE,
                  emitted |-> emission.emitted \cup {emission.event}]
  /\ UNCHANGED <<trace, apos, self, ret>>
  /\ UNCHANGED reqVars

\* ------------------------------------------------------------------------
\* A request served by a compiled handler-array route
\* ------------------------------------------------------------------------

\* Most calls of next that one handler makes for one request.
MaxCalls == 2

\* the requests that can be in flight at the same time
RequestIds == {"q1", "q2"}

\* The call of the function of lines 126-136 for one request: the compiled
\* route (module m, place j of self._routes), the variable i of line 131,
\* the handlers invoked so far with the third argument each received, the
\* number of calls of next each of them has made, and the number of
\* TypeErrors thrown by route[i++](...) on a value that is not a function.
NoCall == [m |-> <<>>, j |-> 0, i |-> 0, invoked |-> <<>>, made |-> <<>>, threw |-> 0]

NoCalls == [q \in RequestIds |-> NoCall]

\* the array `route` the function of lines 126-136 closes over
RouteItems(c) == self[c.m]._routes[c.j].route.route.items

\* a variant of next that reads route[i] without advancing i
nextStuck(route, c) ==
  IF c.i >= Len(route) \/ route[c.i + 1].kind # "function"
    THEN [c EXCEPT !.threw = @ + 1]
    ELSE [c EXCEPT !.invoked = Append(@, [k |-> c.i + 1, handler |-> route[c.i + 1],
                                          next |-> IF c.i + 1 < Len(route)
                                                     THEN "next" ELSE "null"]),
                   !.made = Append(@, 0)]

\* lines 133-135: route[i++](req, res, (i < route.length) ? next : null).
\* i counts from 0 as in the code, the places of the array from 1.
next(route, c) ==
  IF c.i >= Len(route) \/ route[c.i + 1].kind # "function"
    THEN [c EXCEPT !.i = @ + 1, !.threw = @ + 1]
    ELSE [c EXCEPT !.i = @ + 1,
                   !.invoked = Append(@, [k |-> c.i + 1, handler |-> route[c.i + 1],
                                          next |-> IF c.i + 1 < Len(route)
                                                     THEN "next" ELSE "null"]),
                   !.made = Append(@, 0)]

\* a variant of RouteAfter in which the call takes the handler off the array
RouteAfterShift(route, c) == IF route = <<>> THEN route ELSE Tail(route)

\* lines 133-135: the array `route` after route[i++](...), which reads it
\* and assigns nothing to it
RouteAfter(route, c) == route

\* the modules after a call of next made for the call c
SelfAfter(c) ==
  [self EXCEPT ![c.m]._routes[c.j].route.route.items = RouteAfter(@, c)]

\* the compiled route at place j of module m runs a handler array
IsChain(m, j) ==
  /\ self[m]._routes[j].route.kind = "function"
  /\ self[m]._routes[j].route.id = "chain"

\* lines 126-132: a request reaches the route: let i = 0; next()
routeCalled ==
  /\ \E q \in RequestIds, m \in DOMAIN self :
       \E j \in DOMAIN self[m]._routes :
          /\ calls[q] = NoCall
          /\ IsChain(m, j)
          /\ calls' = [calls EXCEPT ![q] =
                         next(self[m]._routes[j].route.route.items,
                              [NoCall EXCEPT !.m = m, !.j = j])]
          /\ self' = SelfAfter([NoCall EXCEPT !.m = m, !.j = j])
  /\ UNCHANGED <<req, res, trace, pc, outcome, ret>>
  /\ UNCHANGED <<apos, emission>>

\* a handler that received next calls it
callNext ==
  /\ \E q \in RequestIds :
       \E p \in DOMAIN calls[q].invoked :
          /\ calls[q].invoked[p].next = "next"
          /\ calls[q].made[p] < MaxCalls
          /\ calls' = [calls EXCEPT ![q] =
                         next(RouteItems(calls[q]), [calls[q] EXCEPT !.made[p] = @ + 1])]
          /\ self' = SelfAfter(calls[q])
  /\ UNCHANGED <<req, res, trace, pc, outcome, ret>>
  /\ UNCHANGED <<apos, emission>>

\* lines 948-954; can is the answer of self.apos.permission.can(req,
\* 'view-draft')
canAccessApi(s, rq, can) ==
  IF "guestApiAccess" \in DOMAIN s /\ s.guestApiAccess THEN rq.user ELSE can

\* no emission in progress
NoEmission == [event |-> "none", i |-> 0, running |-> FALSE, emitted |-> {}]

\* the startup state of a process without modules
NotStarted ==
  /\ apos = NoApos
  /\ self = <<>>
  /\ emission = NoEmission
  /\ calls = NoCalls

\* ------------------------------------------------------------------------
\* The handler of a route: what it does while the wrapper awaits it
\* ------------------------------------------------------------------------

\* a request reaches a wrapped route
Dispatch(Reqs) ==
  /\ pc # "handler"
  /\ \E r \in Reqs : req' = r
  /\ res' = FreshRes
  /\ trace' = <<>>
  /\ pc' = "handler"
  /\ outcome' = NoOutcome
  /\ ret' = NoRet
  /\ UNCHANGED bootVars
  /\ UNCHANGED calls

\* the handler sets the status of the response
handlerSetStatus(Codes) ==
  /\ pc = "handler"
  /\ \E code \in Codes : res' = [res EXCEPT !.statusCode = code]
  /\ ret' = NoRet
  /\ UNCHANGED <<req, trace, pc, outcome>>
  /\ UNCHANGED bootVars
  /\ UNCHANGED calls

\* the handler writes a Cache-Control header of its own
handlerSetHeader(Values) ==
  /\ pc = "handler"
  /\ \E v \in Values : res' = [res EXCEPT !.cacheControl = v]
  /\ ret' = NoRet
  /\ UNCHANGED <<req, trace, pc, outcome>>
  /\ UNCHANGED bootVars
  /\ UNCHANGED calls

callIsSafeToCache ==
  /\ pc = "handler"
  /\ ret' = [fn |-> "isSafeToCache", value |-> isSafeToCache(req, res), before |-> res]
  /\ UNCHANGED <<req, res, trace, pc, outcome>>
  /\ UNCHANGED bootVars
  /\ UNCHANGED calls

callSetMaxAge(Args) ==
  /\ pc = "handler"
  /\ \E maxAge \in Args :
       /\ res' = setMaxAge(req, res, maxAge)
       /\ ret' = [fn |-> "setMaxAge", maxAge |-> maxAge,
                  warned |-> maxAge.type # "number", before |-> res]
  /\ UNCHANGED <<req, trace, pc, outcome>>
  /\ UNCHANGED bootVars
  /\ UNCHANGED calls

callCheckETag(DocArgs, Args, Nows) ==
  /\ pc = "handler"
  /\ \E doc \in DocArgs, maxAge \in Args, now \in Nows :
       \E r \in {checkETag(req, res, doc, maxAge, now)} :
          /\ res' = r.res
          /\ ret' = [fn |-> "checkETag", value |-> r.value, doc |-> doc,
                     maxAge |-> maxAge, now |-> now, before |-> res]
  /\ UNCHANGED <<req, trace, pc, outcome>>
  /\ UNCHANGED bootVars
  /\ UNCHANGED calls

\* a handler asks a module whether the request may use its REST API
callCanAccessApi ==
  /\ pc = "handler"
  /\ \E m \in DOMAIN self, can \in BOOLEAN :
       ret' = [fn |-> "canAccessApi", module |-> m,
               value |-> canAccessApi(self[m], req, can)]
  /\ UNCHANGED <<req, res, trace, pc, outcome>>
  /\ UNCHANGED bootVars
  /\ UNCHANGED calls

\* ------------------------------------------------------------------------
\* The route wrappers, from the return or throw of the handler to the end
\* ------------------------------------------------------------------------

\* a variant of ApiSuccess that writes no-store for every GET
ApiSuccessAnyUser(rq, r) ==
  [r EXCEPT !.cacheControl = IF rq.method = "GET" THEN "no-store" ELSE @,
            !.statusCode = 200]

\* lines 195-200: the response object when res.send is called
ApiSuccess(rq, r) ==
  [r EXCEPT !.cacheControl = IF rq.method = "GET" /\ rq.user THEN "no-store" ELSE @,
            !.statusCode = 200]

\* lines 195-200: the calls made on res
ApiSuccessCalls(rq, r, result, sendOk) ==
  (IF rq.method = "GET" /\ rq.user
     THEN <<[op |-> "header", name |-> "Cache-Control", value |-> "no-store"]>>
     ELSE <<>>)
  \o <<[op |-> "status", code |-> 200], SendCall(ApiSuccess(rq, r), result, sendOk)>>

\* the end of a wrapper whose catch block ran routeSendError with result e
Caught(e) ==
  /\ res' = e.res
  /\ trace' = e.trace
  /\ pc' = IF e.threw THEN "rejected" ELSE "done"

\* lines 193-203, the handler having returned result
apiRoutesReturn(Rs) ==
  /\ pc = "handler" /\ req.kind = "apiRoutes"
  /\ \E result \in Rs, sendOk \in BOOLEAN, logOk \in BOOLEAN, sendOk2 \in BOOLEAN :
       /\ outcome' = [type |-> "return", value |-> result, before |-> res]
       /\ IF sendOk
            THEN /\ res' = ApiSuccess(req, res)
                 /\ trace' = trace \o ApiSuccessCalls(req, res, result, TRUE)
                 /\ pc' = "done"
            ELSE \E e \in {routeSendError(ApiSuccess(req, res),
                                          trace \o ApiSuccessCalls(req, res, result, FALSE),
                                          SendError, logOk, sendOk2)} : Caught(e)
  /\ ret' = NoRet
  /\ UNCHANGED req
  /\ UNCHANGED bootVars
  /\ UNCHANGED calls

\* lines 193 and 201-203, the handler having thrown err
apiRoutesThrow(Es) ==
  /\ pc = "handler" /\ req.kind = "apiRoutes"
  /\ \E err \in Es, logOk \in BOOLEAN, sendOk \in BOOLEAN :
       /\ outcome' = [type |-> "throw", err |-> err, before |-> res]
       /\ \E e \in {routeSendError(res, trace, err, logOk, sendOk)} : Caught(e)
  /\ ret' = NoRet
  /\ UNCHANGED req
  /\ UNCHANGED bootVars
  /\ UNCHANGED calls

\* self.render(req, name, result): the markup of the template
render(result) == [markup |-> result.value]

\* lines 209-214, the handler having returned result; the renderer returns
\* the markup or throws renderErr
renderRoutesReturn(Rs, Es) ==
  /\ pc = "handler" /\ req.kind = "renderRoutes"
  /\ \E result \in Rs, renderOk \in BOOLEAN, renderErr \in Es,
        sendOk \in BOOLEAN, logOk \in BOOLEAN, sendOk2 \in BOOLEAN :
       /\ outcome' = [type |-> "return", value |-> result, before |-> res,
                      rendered |-> renderOk]
       /\ IF ~renderOk
            THEN \E e \in {routeSendError(res, trace, renderErr, logOk, sendOk2)} : Caught(e)
            ELSE IF sendOk
              THEN /\ res' = res
                   /\ trace' = trace \o <<SendCall(res, render(result), TRUE)>>
                   /\ pc' = "done"
              ELSE \E e \in {routeSendError(res, trace \o <<SendCall(res, render(result), FALSE)>>,
                                            SendError, logOk, sendOk2)} : Caught(e)
  /\ ret' = NoRet
  /\ UNCHANGED req
  /\ UNCHANGED bootVars
  /\ UNCHANGED calls

\* lines 209 and 212-214, the handler having thrown err
renderRoutesThrow(Es) ==
  /\ pc = "handler" /\ req.kind = "renderRoutes"
  /\ \E err \in Es, logOk \in BOOLEAN, sendOk \in BOOLEAN :
       /\ outcome' = [type |-> "throw", err |-> err, before |-> res]
       /\ \E e \in {routeSendError(res, trace, err, logOk, sendOk)} : Caught(e)
  /\ ret' = NoRet
  /\ UNCHANGED req
  /\ UNCHANGED bootVars
  /\ UNCHANGED calls

\* ------------------------------------------------------------------------
\* Specifications
\* ------------------------------------------------------------------------

Init ==
  /\ req = NoReq
  /\ res = FreshRes
  /\ trace = <<>>
  /\ pc = "idle"
  /\ outcome = NoOutcome
  /\ ret = NoRet
  /\ NotStarted

\* requests served by wrapped routes whose handlers set the status, write
\* Cache-Control, call setMaxAge, and return or throw
SpecReqs ==
  {Request(k, m, u, s, <<>>, NoDataProp) :
     k \in RouteKinds, m \in Methods, u \in BOOLEAN, s \in SomeSessions}

\* what the handlers of these requests pass to res.status and to setMaxAge
SpecStatuses == {200, 404}
SpecMaxAges == {NumberArg(60), StringArg(60)}

Next ==
  \/ Dispatch(SpecReqs)
  \/ handlerSetStatus(SpecStatuses)
  \/ handlerSetHeader({"public"})
  \/ callSetMaxAge(SpecMaxAges)
  \/ apiRoutesReturn(Results)
  \/ apiRoutesThrow(SomeErrs)
  \/ renderRoutesReturn(Results, SomeErrs)
  \/ renderRoutesThrow(SomeErrs)

Spec == Init /\ [][Next]_vars

\* the error normalizer over every thrown value of the bounded universe
ErrReqs ==
  {Request(k, "GET", FALSE, CookieSession, <<>>, NoDataProp) : k \in RouteKinds}

NextErr ==
  \/ Dispatch(ErrReqs)
  \/ apiRoutesThrow(AllErrs)
  \/ renderRoutesThrow(AllErrs)

SpecErr == Init /\ [][NextErr]_vars

\* isSafeToCache and setMaxAge over every session, user and status
CacheReqs ==
  {Request("apiRoutes", "GET", u, s, <<>>, NoDataProp) : u \in BOOLEAN, s \in Sessions}

InitCache ==
  /\ req \in CacheReqs
  /\ res \in {[FreshRes EXCEPT !.statusCode = c] : c \in StatusCodes}
  /\ trace = <<>>
  /\ pc = "handler"
  /\ outcome = NoOutcome
  /\ ret = NoRet
  /\ NotStarted

NextCache ==
  \/ callIsSafeToCache
  \/ callSetMaxAge(MaxAges)

SpecCache == InitCache /\ [][NextCache]_vars

\* checkETag over If-None-Match headers, documents, maxAge and the clock
PartVocabulary == {<<>>, <<"a">>, <<"1">>, <<"1", "0", "0", "0">>}
IfNoneMatchHeaders == {Join(parts) : parts \in BoundedSeqs(PartVocabulary, MaxParts)}
DataProps ==
  {NoDataProp, [piece |-> Doc(1), page |-> Doc(1000)], [piece |-> NoDoc, page |-> Doc(1)]}
DocArgs == {NoDoc, Doc(1), DocNoStamp}
ETagMaxAges == {NumberArg(0), NumberArg(1), UndefinedArg}
Nows == {1000, 2000, 2001}

ETagReqs ==
  {Request("renderRoutes", "GET", u, s, h, d) :
     u \in BOOLEAN, s \in SomeSessions, h \in IfNoneMatchHeaders, d \in DataProps}

InitETag ==
  /\ req \in ETagReqs
  /\ res \in {[FreshRes EXCEPT !.statusCode = c] : c \in {200, 404}}
  /\ trace = <<>>
  /\ pc = "handler"
  /\ outcome = NoOutcome
  /\ ret = NoRet
  /\ NotStarted

NextETag == callCheckETag(DocArgs, ETagMaxAges, Nows)

SpecETag == InitETag /\ [][NextETag]_vars

\* getRouteUrl over every route name of the alphabet, for two modules
Str_test == <<"t", "e", "s", "t">>
Str_saveArea == <<"s", "a", "v", "e", "A", "r", "e", "a">>
Str_custom == <<"/", "c", "u", "s", "t", "o", "m">>
Str_fooId == <<"f", "o", "o", "/", ":", "i", "d">>

RouteNameAlphabet == {"/", ":", "*", "a", "A", "-"}
RouteNames ==
  BoundedSeqs(RouteNameAlphabet, MaxName) \cup {Str_saveArea, Str_custom, Str_fooId}

NoSection == <<>>
NoRest == <<>>
NoHandlers == <<>>

UrlModules ==
  (Str_test :> Module(Str_test, Undef, NoSection, NoSection, NoSection, NoRest, NoHandlers))
  @@ (<<"m">> :> Module(<<"m">>, "page", NoSection, NoSection, NoSection, NoRest, NoHandlers))

InitUrl ==
  /\ req = NoReq
  /\ res = FreshRes
  /\ trace = <<>>
  /\ pc = "idle"
  /\ outcome = NoOutcome
  /\ ret = NoRet
  /\ apos = NoApos
  /\ self = UrlModules
  /\ emission = NoEmission
  /\ calls = NoCalls

NextUrl ==
  \/ \E m \in DOMAIN self : init(m)
  \/ callGetRouteUrl(RouteNames)

SpecUrl == InitUrl /\ [][NextUrl]_vars

\* registration and event handlers: two modules with any alias and any
\* handlers of their own
BootAliases == {Undef, "page", "util"}

HandlerVocabulary ==
  {HandlerEntry("ev", "h1"), HandlerEntry("ev", "h2"), HandlerEntry("ev2", "h1")}

\* a handlers section has each property once, and the properties of one
\* event next to each other
IsSection(h) ==
  /\ \A i, j \in DOMAIN h : h[i] = h[j] => i = j
  /\ \A i, j, k \in DOMAIN h : (i < j /\ j < k /\ h[i].event = h[k].event) =>
        h[j].event = h[i].event

OwnHandlers == {h \in BoundedSeqs(HandlerVocabulary, MaxHandlers) : IsSection(h)}

BootModule(name, alias, own) ==
  Module(name, alias, NoSection, NoSection, NoSection, NoRest, BaseHandlers \o own)

BootModules ==
  {(<<"m">> :> BootModule(<<"m">>, a1, h1)) @@ (<<"n">> :> BootModule(<<"n">>, a2, h2)) :
     a1 \in BootAliases, a2 \in BootAliases, h1 \in OwnHandlers, h2 \in OwnHandlers}

BootEvents == {Ev_modulesRegistered, Ev_compileRoutes, "ev"}

InitBoot ==
  /\ req = NoReq
  /\ res = FreshRes
  /\ trace = <<>>
  /\ pc = "idle"
  /\ outcome = NoOutcome
  /\ ret = NoRet
  /\ apos = NoApos
  /\ self \in BootModules
  /\ emission = NoEmission
  /\ calls = NoCalls

NextBoot ==
  \/ \E m \in DOMAIN self : init(m)
  \/ \E m \in DOMAIN self : afterAllSections(m)
  \/ emit(BootEvents)
  \/ invokeHandler
  \/ handlerSettles
  \/ emitReturns

SpecBoot == InitBoot /\ [][NextBoot]_vars

\* the compilation of routes: module m with any REST shorthand and one of
\* three apiRoutes sections, next to a module n
Str_list == <<"l", "i", "s", "t">>
Str_upload == <<"u", "p", "l", "o", "a", "d">>
Str_preview == <<"p", "r", "e", "v", "i", "e", "w">>

ShorthandNames == {RestShorthand[k].short : k \in DOMAIN RestShorthand}
WrappedShorthand == {RestShorthand[k].short : k \in {j \in DOMAIN RestShorthand : RestShorthand[j].wrap}}

Middleware(n) == [i \in 1..n |-> Fn("mw" \o ToString(i))]

\* a shorthand declaration: a function, or n middleware functions and a function
RestConfig(short, n) == IF n = 0 THEN Fn(short) ELSE Arr(Middleware(n - 1) \o <<Fn(short)>>)

RestObjects ==
  {[k \in K |-> RestConfig(k, IF k \in WrappedShorthand THEN nw ELSE nu)] :
     K \in SUBSET ShorthandNames, nw \in 0..MaxChain, nu \in 0..MaxChain}

ApiSections ==
  {NoSection,
   <<Entry("get", Str_list, Fn("a1")),
     Entry("post", Str_saveArea, Config(Fn("a2"), "list"))>>,
   <<Entry("get", <<>>, Fn("a3")),
     Entry("get", Str_id, Arr(<<Fn("mw1"), Fn("a4")>>)),
     Entry("put", Str_list, Fn("a5"))>>}

RoutesOfM ==
  <<Entry("get", Str_custom, Fn("r1")),
    Entry("post", Str_upload, Config(Arr(<<Fn("mw1"), Fn("r2")>>), Undef))>>

RenderRoutesOfM == <<Entry("get", Str_preview, Fn("v1"))>>

ModulesM ==
  {Module(<<"m">>, Undef, RoutesOfM, RenderRoutesOfM, a, r, BaseHandlers) :
     a \in ApiSections, r \in RestObjects}

ModulesN ==
  {Module(<<"n">>, Undef, NoSection, NoSection, NoSection, NoRest, BaseHandlers),
   Module(<<"n">>, Undef, <<Entry("get", Str_custom, Fn("r3"))>>, NoSection, NoSection,
          NoRest, BaseHandlers),
   Module(<<"n">>, Undef, <<Entry("get", Str_list, Fn("r4"))>>,
          <<Entry("post", Str_preview, Arr(<<Fn("v2")>>))>>,
          <<Entry("get", Str_list, Fn("a6"))>>, NoRest, BaseHandlers)}

InitCompile ==
  /\ req = NoReq
  /\ res = FreshRes
  /\ trace = <<>>
  /\ pc = "idle"
  /\ outcome = NoOutcome
  /\ ret = NoRet
  /\ apos = NoApos
  /\ self \in {(<<"m">> :> m) @@ (<<"n">> :> n) : m \in ModulesM, n \in ModulesN}
  /\ emission = NoEmission
  /\ calls = NoCalls

NextCompile ==
  \/ \E m \in DOMAIN self : init(m)
  \/ \E m \in DOMAIN self : afterAllSections(m)
  \/ emit({Ev_compileRoutes})
  \/ invokeHandler
  \/ handlerSettles
  \/ emitReturns

SpecCompile == InitCompile /\ [][NextCompile]_vars

\* the compilation of declarations that are unusual: a :_id route declared
\* in apiRoutes before a named route, next to a getOne shorthand; handler
\* arrays that are empty or end in undefined; a route that is undefined
Str_show == <<"s", "h", "o", "w">>

DeclaredM ==
  {Module(<<"m">>, Undef, RoutesOfM, RenderRoutesOfM,
          <<Entry("get", Str_list, Fn("a1"))>>, [getOne |-> Fn("getOne")], BaseHandlers),
   Module(<<"m">>, Undef, RoutesOfM, NoSection,
          <<Entry("get", Str_id, Fn("a7")), Entry("get", Str_list, Fn("a8"))>>,
          [getOne |-> Fn("getOne")], BaseHandlers),
   Module(<<"m">>, Undef, NoSection, NoSection,
          <<Entry("get", Str_list, Arr(<<>>))>>, NoRest, BaseHandlers),
   Module(<<"m">>, Undef, NoSection, <<Entry("get", Str_show, Config(JsUndefined, Undef))>>,
          NoSection, NoRest, BaseHandlers),
   Module(<<"m">>, Undef, <<Entry("post", Str_upload, Arr(<<Fn("mw1"), JsUndefined>>))>>,
          NoSection, <<Entry("get", Str_list, Fn("a1"))>>, NoRest, BaseHandlers),
   Module(<<"m">>, Undef,
          <<Entry("get", Str_custom, Fn("r1")), Entry("post", Str_upload, JsUndefined),
            Entry("post", Str_show, Fn("r2"))>>,
          NoSection, <<Entry("get", Str_list, Fn("a1"))>>, NoRest, BaseHandlers),
   Module(<<"m">>, Undef, NoSection, NoSection,
          <<Entry("get", Str_list, JsNull)>>, NoRest, BaseHandlers)}

InitDeclared ==
  /\ req = NoReq
  /\ res = FreshRes
  /\ trace = <<>>
  /\ pc = "idle"
  /\ outcome = NoOutcome
  /\ ret = NoRet
  /\ apos = NoApos
  /\ self \in {(<<"m">> :> m) @@ (<<"n">> :> n) : m \in DeclaredM, n \in ModulesN}
  /\ emission = NoEmission
  /\ calls = NoCalls

SpecDeclared == InitDeclared /\ [][NextCompile]_vars

\* requests served by the handler-array routes of a module, once compiled
ChainModules ==
  {Module(<<"m">>, Undef,
          <<Entry("get", Str_custom, Arr(<<Fn("mw1"), Fn("mw2"), Fn("r1")>>))>>,
          NoSection,
          <<Entry("post", Str_list, Arr(<<Fn("mw1"), Fn("a1")>>))>>,
          NoRest, BaseHandlers),
   Module(<<"m">>, Undef, <<Entry("get", Str_custom, Arr(<<Fn("r1")>>))>>,
          NoSection, NoSection, NoRest, BaseHandlers)}

InitChain ==
  /\ req = NoReq
  /\ res = FreshRes
  /\ trace = <<>>
  /\ pc = "idle"
  /\ outcome = NoOutcome
  /\ ret = NoRet
  /\ apos = NoApos
  /\ self \in {(<<"m">> :> m) : m \in ChainModules}
  /\ emission = NoEmission
  /\ calls = NoCalls

NextChain ==
  \/ \E m \in DOMAIN self : init(m)
  \/ \E m \in DOMAIN self : afterAllSections(m)
  \/ emit({Ev_compileRoutes})
  \/ invokeHandler
  \/ handlerSettles
  \/ emitReturns
  \/ routeCalled
  \/ callNext

SpecChain == InitChain /\ [][NextChain]_vars

\* the startup of two modules with tasks, for a command line that names a
\* task of one of them, a task that does not exist, or no task
Str_run == <<"r", "u", "n">>
Str_reset == <<"r", "e", "s", "e", "t">>

ExitAfters == {Undef, "true", "false"}

TasksOfM ==
  {<<Task(Str_run, i, r, e), Task(Str_reset, FALSE, TRUE, "false")>> :
     i \in BOOLEAN, r \in BOOLEAN, e \in ExitAfters}

TasksOfN == <<Task(Str_run, TRUE, TRUE, "false")>>

TaskModule(name, tasks) ==
  [tasks |-> tasks] @@ Module(name, Undef, NoSection, NoSection, NoSection, NoRest, BaseHandlers)

\* apos.argv._[0]; <<>> stands for a command line without a command
Commands ==
  {<<>>, CommandOf(<<"m">>, Str_run), CommandOf(<<"m">>, Str_reset),
   CommandOf(<<"n">>, Str_run), CommandOf(<<"m">>, Str_list)}

InitTask ==
  /\ req = NoReq
  /\ res = FreshRes
  /\ trace = <<>>
  /\ pc = "idle"
  /\ outcome = NoOutcome
  /\ ret = NoRet
  /\ apos \in {[argv |-> c, taskRan |-> FALSE] @@ NoApos : c \in Commands}
  /\ self \in {(<<"m">> :> TaskModule(<<"m">>, t)) @@ (<<"n">> :> TaskModule(<<"n">>, TasksOfN)) :
                 t \in TasksOfM}
  /\ emission = NoEmission
  /\ calls = NoCalls

\* the events emitted during the startup
TaskEvents == {Ev_moduleReady, Ev_compileRoutes}

NextTask ==
  \/ \E m \in DOMAIN self : init(m)
  \/ \E m \in DOMAIN self : afterAllSections(m)
  \/ emit(TaskEvents)
  \/ invokeHandler
  \/ handlerSettles
  \/ emitReturns

SpecTask == InitTask /\ [][NextTask]_vars

\* a process that starts a module and then serves requests: calls of its
\* handler-array routes, and requests to its wrapped routes whose handlers
\* use the helpers of the module
ServedModules ==
  {[guestApiAccess |-> g]
   @@ Module(<<"m">>, "page",
             <<Entry("get", Str_custom, Arr(<<Fn("mw1"), Fn("r1")>>))>>,
             NoSection,
             <<Entry("post", Str_list, Fn("a1"))>>,
             [getOne |-> Fn("getOne")], BaseHandlers) : g \in BOOLEAN}

ServedReqs ==
  {Request(k, "GET", u, CookieSession, <<"a", ":", "1", ":", "1", "0", "0", "0">>,
           NoDataProp) : k \in RouteKinds, u \in BOOLEAN}

ServedErrs == {ErrObj("notfound", "m1", NoData, Undef, <<>>, Undef), JsNull}

InitServe ==
  /\ req = NoReq
  /\ res = FreshRes
  /\ trace = <<>>
  /\ pc = "idle"
  /\ outcome = NoOutcome
  /\ ret = NoRet
  /\ apos = NoApos
  /\ self \in {(<<"m">> :> m) : m \in ServedModules}
  /\ emission = NoEmission
  /\ calls = NoCalls

NextServe ==
  \/ \E m \in DOMAIN self : init(m)
  \/ \E m \in DOMAIN self : afterAllSections(m)
  \/ emit({Ev_compileRoutes})
  \/ invokeHandler
  \/ handlerSettles
  \/ emitReturns
  \/ routeCalled
  \/ callNext
  \/ Dispatch(ServedReqs)
  \/ callIsSafeToCache
  \/ callSetMaxAge({NumberArg(60)})
  \/ callCheckETag({Doc(1)}, {NumberArg(1)}, {2000})
  \/ callGetRouteUrl({Str_saveArea})
  \/ callCanAccessApi
  \/ apiRoutesReturn({[value |-> "r1"]})
  \/ apiRoutesThrow(ServedErrs)
  \/ renderRoutesReturn({[value |-> "r1"]}, ServedErrs)
  \/ renderRoutesThrow(ServedErrs)

SpecServe == InitServe /\ [][NextServe]_vars

\* ------------------------------------------------------------------------
\* How a compiled route calls the functions it was built from
\* ------------------------------------------------------------------------

NotAFunction == [id |-> "TypeError", args |-> <<>>]

\* The call of a declared function that a call of fn with args ends in,
\* every middleware function having called next: the function of line 185
\* calls route(req, req.params._id), a wrapper calls fn(req) (lines 193 and
\* 209), and the function of lines 126-136 calls the last function of the
\* array with (req, res, null).
RECURSIVE CallOf(_, _)
CallOf(fn, args) ==
  IF fn.kind # "function" THEN NotAFunction
  ELSE IF fn.id = "wrapId" THEN CallOf(fn.route, <<args[1], "req.params._id">>)
  ELSE IF fn.id \in {"apiRoutes", "renderRoutes"} THEN CallOf(fn.route, <<args[1]>>)
  ELSE IF fn.id = "chain"
    THEN (IF fn.route.items = <<>> THEN NotAFunction
          ELSE CallOf(fn.route.items[Len(fn.route.items)], <<args[1], args[2], "null">>))
  ELSE [id |-> fn.id, args |-> args]

\* lines 131-135: the functions called before the last one
MiddlewareOf(fn) ==
  IF fn.id = "chain" /\ fn.route.items # <<>>
    THEN SubSeq(fn.route.items, 1, Len(fn.route.items) - 1)
    ELSE <<>>

\* ------------------------------------------------------------------------
\* Properties
\* ------------------------------------------------------------------------

IsSend(e) == e.op = "send"

\* the calls of res.send made for the request, in order
Sends == SelectSeq(trace, IsSend)

\* the wrapper has finished: it returned, or its promise was rejected
Terminal == pc \in {"done", "rejected"}

HandlerThrew(kind) == Terminal /\ outcome.type = "throw" /\ outcome.err.kind = kind

\* the thrown value is one error: an Error, a plain object or a string
ThrewSingle == Terminal /\ outcome.type = "throw" /\ outcome.err.kind \in {"object", "string"}

GenericBody == [name |-> "error", data |-> EmptyObject, message |-> "An error occurred."]

\* what a sub-error without sub-errors of its own is normalized to
ExpectedLeafEntry(e) ==
  IF e.name \in DOMAIN errors
    THEN [name |-> e.name, code |-> errors[e.name], message |-> e.message,
          data |-> IF e.data.kind = "object" THEN e.data ELSE EmptyObject,
          path |-> e.path]
    ELSE [name |-> "error", code |-> 500, message |-> "An error occurred.",
          data |-> EmptyObject, path |-> e.path]

\* what a sub-error is normalized to
ExpectedEntry(e) ==
  IF e.name = "invalid" /\ e.data.hasErrors
    THEN [ExpectedLeafEntry(e) EXCEPT
            !.data.errors = [i \in DOMAIN e.data.errors |-> ExpectedLeafEntry(e.data.errors[i])]]
    ELSE ExpectedLeafEntry(e)

HasNullish(es) == \E i \in DOMAIN es : IsNullish(es[i])

\* C1: an error whose name the taxonomy does not map, or that has no name,
\* gets status 500 and the body {name: "error", data: {}, message: "An error
\* occurred."}, whatever its message, data, path, stack and cause are.
C1_UnknownIsGeneric500 ==
  (ThrewSingle /\ outcome.err.name \notin DOMAIN errors) =>
     /\ res.statusCode = 500
     /\ Len(Sends) = 1
     /\ Sends[1].statusCode = 500
     /\ Sends[1].body = GenericBody

C1_Witness ==
  /\ pc = "done" /\ HandlerThrew("object")
  /\ outcome.err.name = "boom" /\ outcome.err.message = "m2"
  /\ outcome.err.data = DataObj("d1") /\ outcome.err.path = "p1"
  /\ outcome.err.stack # <<>> /\ outcome.err.cause = "c1"
  /\ Len(Sends) = 1

\* C2 as stated: an error whose name the taxonomy maps gets the mapped status
\* and a body with its own name, its own message and its own data (or {}).
C2_KnownKeepsOwnData ==
  (ThrewSingle /\ outcome.err.name \in DOMAIN errors /\ Len(Sends) > 0) =>
     /\ Sends[1].statusCode = errors[outcome.err.name]
     /\ Sends[1].body.name = outcome.err.name
     /\ Sends[1].body.message = outcome.err.message
     /\ Sends[1].body.data = (IF outcome.err.data.kind = "object"
                                THEN outcome.err.data ELSE EmptyObject)

\* C2 amended: an error whose name the taxonomy maps gets the mapped status
\* and a body with its own name and message; the data of the body is the
\* error's own data (or {}), except that the data.errors of an 'invalid'
\* error holds the normalized form of each sub-error; and when one of those
\* sub-errors is null or undefined nothing is sent at all.
C2_KnownKeepsNameAndCleansedData ==
  (ThrewSingle /\ outcome.err.name \in DOMAIN errors) =>
     IF outcome.err.name = "invalid" /\ outcome.err.data.hasErrors
       THEN IF HasNullish(outcome.err.data.errors)
              THEN pc = "rejected" /\ Sends = <<>> /\ res = outcome.before
              ELSE /\ Len(Sends) = 1
                   /\ Sends[1].statusCode = 400
                   /\ Sends[1].body.name = "invalid"
                   /\ Sends[1].body.message = outcome.err.message
                   /\ Sends[1].body.data =
                        [outcome.err.data EXCEPT
                           !.errors = [i \in DOMAIN outcome.err.data.errors |->
                                         ExpectedEntry(outcome.err.data.errors[i])]]
       ELSE /\ Len(Sends) = 1
            /\ Sends[1].statusCode = errors[outcome.err.name]
            /\ Sends[1].body.name = outcome.err.name
            /\ Sends[1].body.message = outcome.err.message
            /\ Sends[1].body.data = (IF outcome.err.data.kind = "object"
                                       THEN outcome.err.data ELSE EmptyObject)

C2_Witness ==
  /\ pc = "done" /\ HandlerThrew("object")
  /\ outcome.err.name = "invalid" /\ outcome.err.data.hasErrors
  /\ Len(outcome.err.data.errors) = 2
  /\ Len(Sends) = 1
  /\ Sends[1].body.data # outcome.err.data
  /\ Sends[1].body.data.errors[1].name = "error"
  /\ Sends[1].body.data.errors[2].name = "required"

\* C3: a thrown sequence of n errors gets status 400 and a body named
\* "invalid" whose data.errors holds, in the order of the input, the
\* normalized form of each of the n errors.
C3_ArrayIsInvalidEnvelope ==
  (HandlerThrew("array") /\ ~HasNullish(outcome.err.items)) =>
     /\ Len(Sends) = 1
     /\ res.statusCode = 400
     /\ Sends[1].statusCode = 400
     /\ Sends[1].body.name = "invalid"
     /\ Len(Sends[1].body.data.errors) = Len(outcome.err.items)
     /\ \A i \in DOMAIN outcome.err.items :
          Sends[1].body.data.errors[i] = ExpectedEntry(outcome.err.items[i])

C3_Witness ==
  /\ pc = "done" /\ HandlerThrew("array")
  /\ Len(outcome.err.items) = 2
  /\ outcome.err.items[1].name = "required" /\ outcome.err.items[1].path = "p1"
  /\ outcome.err.items[1].data = DataObj("d1")
  /\ outcome.err.items[2].name = "boom"
  /\ Len(Sends) = 1
  /\ Sends[1].body.data.errors[1].code = 400
  /\ Sends[1].body.data.errors[2].code = 500

\* C4: whatever single value the handler threw (an Error, a plain object, a
\* string, null or undefined), routeSendError has set a status and called
\* res.send with a body.
C4_EveryThrownValueIsAnswered ==
  (Terminal /\ outcome.type = "throw" /\ outcome.err.kind # "array") =>
     /\ Len(Sends) = 1
     /\ DOMAIN Sends[1].body = {"name", "data", "message"}

\* C5: the body sent for an error has exactly the keys name, data and
\* message, and no entry of data.errors of an 'invalid' body has a key fn.
C5_BodyHasThreeKeys ==
  (Terminal /\ outcome.type = "throw") =>
     \A i \in DOMAIN Sends :
        /\ DOMAIN Sends[i].body = {"name", "data", "message"}
        /\ Sends[i].body.name = "invalid" =>
              \A j \in DOMAIN Sends[i].body.data.errors :
                 /\ DOMAIN Sends[i].body.data.errors[j] =
                       {"name", "code", "message", "data", "path"}
                 /\ Sends[i].body.data.errors[j].name = "invalid" =>
                       \A k \in DOMAIN Sends[i].body.data.errors[j].data.errors :
                          "fn" \notin DOMAIN Sends[i].body.data.errors[j].data.errors[k]

C5_Witness ==
  /\ pc = "done" /\ HandlerThrew("array")
  /\ Len(Sends) = 1
  /\ Sends[1].body.name = "invalid"
  /\ Len(Sends[1].body.data.errors) = 2
  /\ Len(Sends[1].body.data.errors[1].data.errors) = 1

\* C6: when a wrapper has finished, res.send has been called exactly once.
C6_ExactlyOneSend == Terminal => Len(Sends) = 1

\* C7: when the handler of an API route has returned, the wrapper calls
\* res.send with status 200 and the returned value; Cache-Control is
\* no-store for a GET of a logged-in user, whatever the handler wrote, and is
\* what the handler left for any other request.
C7_ApiSuccess ==
  (Terminal /\ req.kind = "apiRoutes" /\ outcome.type = "return") =>
     /\ Len(Sends) >= 1
     /\ Sends[1].statusCode = 200
     /\ Sends[1].body = outcome.value
     /\ Sends[1].cacheControl =
          (IF req.method = "GET" /\ req.user THEN "no-store"
           ELSE outcome.before.cacheControl)
     /\ \E i \in DOMAIN trace :
          /\ trace[i] = [op |-> "status", code |-> 200]
          /\ i < Len(trace)
          /\ IsSend(trace[i + 1])
          /\ \A j \in 1..(i - 1) : ~IsSend(trace[j])
     /\ (\E i \in DOMAIN trace : trace[i].op = "header") <=> (req.method = "GET" /\ req.user)

C7_Witness ==
  /\ pc = "done" /\ req.kind = "apiRoutes" /\ outcome.type = "return"
  /\ req.method = "GET" /\ req.user
  /\ outcome.before.cacheControl = "public"
  /\ outcome.before.statusCode = 404
  /\ Len(Sends) = 1
  /\ Sends[1].cacheControl = "no-store"
  /\ Sends[1].statusCode = 200

\* the session keys that make a response specific to the user
UnsafeKeys(session) ==
  {k \in DOMAIN session :
     \/ k \notin {"cookie", "flash", "passport"}
     \/ (k \in {"flash", "passport"} /\ session[k] = "{k}")}

\* C8: isSafeToCache is false for a request with a user and for a status of
\* 400 or more; otherwise it is true exactly when the session has no key
\* other than cookie, an empty flash and an empty passport.
C8_IsSafeToCache ==
  (ret.fn = "isSafeToCache") =>
     /\ req.user => ~ret.value
     /\ ret.before.statusCode >= 400 => ~ret.value
     /\ (~req.user /\ ret.before.statusCode < 400) =>
          (ret.value <=> UnsafeKeys(req.session) = {})
     /\ (~req.user /\ ret.before.statusCode < 400 /\ DOMAIN req.session = {"cookie"}) =>
          ret.value
     /\ res = ret.before

C8_Witness ==
  /\ ret.fn = "isSafeToCache" /\ ret.value
  /\ res.statusCode = 399
  /\ DOMAIN req.session = {"cookie", "flash", "passport"}
  /\ req.session["flash"] = "{}"

\* the header value for a numeric argument of the model
ExpectedMaxAge(maxAge) ==
  CASE maxAge = NumberArg(0) -> "max-age=0"
    [] maxAge = NumberArg(60) -> "max-age=60"
    [] maxAge = NaNArg -> "max-age=NaN"

\* C9: setMaxAge with an argument that is not a number leaves the response
\* as it was and warns; with a number it sets Cache-Control to
\* max-age=<seconds> when the request is safe to cache and to no-store when
\* it is not, and leaves the rest of the response as it was.
C9_SetMaxAge ==
  (ret.fn = "setMaxAge") =>
     IF ret.maxAge.type # "number"
       THEN res = ret.before /\ ret.warned
       ELSE /\ ~ret.warned
            /\ res.cacheControl = (IF isSafeToCache(req, ret.before)
                                     THEN ExpectedMaxAge(ret.maxAge) ELSE "no-store")
            /\ res.statusCode = ret.before.statusCode
            /\ res.etag = ret.before.etag

C9_Witness ==
  /\ ret.fn = "setMaxAge" /\ ret.maxAge = NumberArg(60)
  /\ ~req.user /\ "flash" \in DOMAIN req.session
  /\ ret.before.cacheControl = "max-age=0"
  /\ res.cacheControl = "max-age=60"

\* the If-None-Match header names the current release and timestamp and a
\* clientSetAt that is a decimal number no older than maxAge seconds
FreshMatch(header, doc, maxAge, now) ==
  /\ doc.kind = "object" /\ doc.hasInvalidatedAt
  /\ maxAge.type = "number" /\ ~maxAge.nan
  /\ Len(Split(header)) >= 3
  /\ Split(header)[1] = getReleaseId
  /\ Split(header)[2] = NumToChars(doc.cacheInvalidatedAt)
  /\ Split(header)[3] # <<>>
  /\ \A j \in DOMAIN Split(header)[3] : IsDigit(Split(header)[3][j])
  /\ now - CharsValue(Split(header)[3]) <= maxAge.v * MsPerSec

\* C10: when the request is safe to cache, the document has ETag parts, and
\* If-None-Match carries the current releaseId and timestamp with a
\* clientSetAt no older than maxAge, checkETag returns true and the ETag
\* header is the If-None-Match value itself.
C10_CheckETagHit ==
  (/\ ret.fn = "checkETag"
   /\ isSafeToCache(req, ret.before)
   /\ FreshMatch(req.ifNoneMatch, Context(req, ret.doc), ret.maxAge, ret.now)) =>
     /\ ret.value = TRUE
     /\ res.etag = [set |-> TRUE, value |-> req.ifNoneMatch]
     /\ res.statusCode = ret.before.statusCode
     /\ res.cacheControl = ret.before.cacheControl

C10_Witness ==
  /\ ret.fn = "checkETag" /\ ret.value = TRUE
  /\ ret.now = 2000 /\ ret.maxAge = NumberArg(1)
  /\ req.ifNoneMatch = <<"a", ":", "1", ":", "1", "0", "0", "0">>
  /\ ret.doc = NoDoc /\ req.data.piece = Doc(1)
  /\ res.etag.value = req.ifNoneMatch

\* the ETag header of a miss: releaseId:timestamp:now
FreshTriple(doc, now) ==
  Join(<<getReleaseId, NumToChars(doc.cacheInvalidatedAt), NumToChars(now)>>)

\* the If-None-Match header names the current release and timestamp, its
\* third part converts to a number, and now - clientSetAt is at most maxAge
\* seconds
MatchWithinMaxAge(header, doc, maxAge, now) ==
  /\ header # <<>>
  /\ Len(Split(header)) >= 3
  /\ Split(header)[1] = getReleaseId
  /\ Split(header)[2] = NumToChars(doc.cacheInvalidatedAt)
  /\ \A j \in DOMAIN Split(header)[3] : IsDigit(Split(header)[3][j])
  /\ now - CharsValue(Split(header)[3]) <= maxAge.v * MsPerSec

\* C11: when the request is safe to cache, the document has ETag parts and
\* maxAge is a number, checkETag returns true only if If-None-Match carries
\* the current releaseId and timestamp and a clientSetAt with
\* now - clientSetAt <= maxAge; in every other case (no If-None-Match, another
\* releaseId or timestamp, an older clientSetAt, or no or a non-numeric
\* clientSetAt) it returns false and the ETag header is releaseId:timestamp:now.
C11_CheckETagMiss ==
  (/\ ret.fn = "checkETag"
   /\ isSafeToCache(req, ret.before)
   /\ generateETagParts(req, ret.doc) # <<>>
   /\ ret.maxAge.type = "number") =>
     IF MatchWithinMaxAge(req.ifNoneMatch, Context(req, ret.doc), ret.maxAge, ret.now)
       THEN ret.value = TRUE
       ELSE /\ ret.value = FALSE
            /\ res.etag = [set |-> TRUE,
                           value |-> FreshTriple(Context(req, ret.doc), ret.now)]

IsLog(e) == e.op = "logError"

\* the calls of the structured logger made for the request, in order
Logs == SelectSeq(trace, IsLog)

\* the position in the trace of the only call with operation op
PosOf(op) == CHOOSE i \in DOMAIN trace : trace[i].op = op

\* C18: whenever routeSendError has sent a response for a thrown error, the
\* structured logger was called exactly once, before the status was set,
\* which was before the body was sent; the event key of the call is
\* "api-error" when the status is 500 and "api-error-" followed by the name
\* of the body for any other status.
C18_LogBeforeSend ==
  (Terminal /\ outcome.type = "throw" /\ Sends # <<>>) =>
     /\ Len(Logs) = 1 /\ Len(Sends) = 1
     /\ PosOf("logError") < PosOf("status")
     /\ PosOf("status") < PosOf("send")
     /\ Logs[1].status = Sends[1].statusCode
     /\ Logs[1].name = Sends[1].body.name
     /\ Logs[1].event = (IF Sends[1].statusCode = 500 THEN "api-error"
                         ELSE "api-error-" \o Sends[1].body.name)

C18_Witness ==
  /\ pc = "done" /\ HandlerThrew("object")
  /\ outcome.err.name = "notfound"
  /\ Len(trace) = 3
  /\ trace[1].op = "logError" /\ trace[1].event = "api-error-notfound"
  /\ trace[2] = [op |-> "status", code |-> 404]
  /\ trace[3].op = "send"

\* what routeSendError does for the thrown error when the logger works and
\* res.send succeeds
WithWorkingLogger == routeSendError(outcome.before, <<>>, outcome.err, TRUE, TRUE)

\* C19: when the structured logger throws while routeSendError logs, the
\* exception is reported with console.error right after the failed call, and
\* the status is set and the body is sent as they are when the logger works.
C19_LogFailureStillSends ==
  (Terminal /\ outcome.type = "throw" /\ Logs # <<>> /\ Logs[1].threw) =>
     /\ Len(Sends) = 1
     /\ trace[PosOf("logError") + 1] = ConsoleError(LogFailure)
     /\ PosOf("console.error") < PosOf("send")
     /\ res.statusCode = WithWorkingLogger.res.statusCode
     /\ Sends[1].statusCode = SelectSeq(WithWorkingLogger.trace, IsSend)[1].statusCode
     /\ Sends[1].body = SelectSeq(WithWorkingLogger.trace, IsSend)[1].body

C19_Witness ==
  /\ pc = "done" /\ HandlerThrew("array")
  /\ Len(outcome.err.items) = 2
  /\ Len(trace) = 4
  /\ trace[1].op = "logError" /\ trace[1].threw
  /\ trace[2].op = "console.error"
  /\ trace[4].op = "send" /\ trace[4].statusCode = 400 /\ ~trace[4].threw

\* C20: routeSendError logs an error whose name the taxonomy maps at level
\* info, and any other error at level error.
C20_LogLevelByKind ==
  (ThrewSingle /\ Logs # <<>>) =>
     Logs[1].level = (IF IsKnown(outcome.err) THEN "info" ELSE "error")

\* the letters and digits of s, in lower case
RECURSIVE Squash(_)
Squash(s) ==
  IF s = <<>> THEN <<>>
  ELSE (IF ~IsAlnum(Head(s)) THEN <<>>
        ELSE IF IsUpper(Head(s)) THEN <<LowerCase[Head(s)]>> ELSE <<Head(s)>>)
       \o Squash(Tail(s))

\* url is prefix, a slash and one more segment: the words of name in lower
\* case with hyphens between them
IsHyphenated(url, prefix, name) ==
  /\ Len(url) > Len(prefix)
  /\ SubSeq(url, 1, Len(prefix) + 1) = prefix \o <<Slash>>
  /\ \A i \in (Len(prefix) + 2)..Len(url) : url[i] = "-" \/ (IsAlnum(url[i]) /\ ~IsUpper(url[i]))
  /\ Squash(SubSeq(url, Len(prefix) + 2, Len(url))) = Squash(name)
  /\ name = Str_saveArea =>
       SubSeq(url, Len(prefix) + 2, Len(url)) = <<"s", "a", "v", "e", "-", "a", "r", "e", "a">>

\* C12: for a module named n, with P = /api/v1/n, getRouteUrl(name) is name
\* itself when name starts with "/"; is P, "/" and name unchanged when name
\* does not start with "/" but contains "/", ":" or "*"; and is otherwise P,
\* "/" and the hyphenated form of name.
C12_GetRouteUrl ==
  (ret.fn = "getRouteUrl") =>
     IF ret.name # <<>> /\ ret.name[1] = Slash
       THEN ret.value = ret.name
       ELSE IF \E i \in DOMAIN ret.name : ret.name[i] \in {Slash, ":", "*"}
         THEN ret.value = ApiV1 \o ret.module \o <<Slash>> \o ret.name
         ELSE IsHyphenated(ret.value, ApiV1 \o ret.module, ret.name)

C12_Witness ==
  /\ ret.fn = "getRouteUrl" /\ ret.module = Str_test /\ ret.name = Str_saveArea
  /\ ret.value = <<"/", "a", "p", "i", "/", "v", "1", "/", "t", "e", "s", "t", "/",
                   "s", "a", "v", "e", "-", "a", "r", "e", "a">>

IsInit(e) == e.op = "init"

\* the calls of init made so far, in order
Inits == SelectSeq(trace, IsInit)

\* the top-level properties of the registry object that are core features
CoreFeatures == {"modules", "util"}

\* the alias of the k-th call of init was bound when the call was made
AliasTaken(k) ==
  \/ Inits[k].alias \in CoreFeatures
  \/ \E j \in 1..(k - 1) : Inits[j].alias = Inits[k].alias /\ ~Inits[j].threw

\* C15: init of a module throws exactly when the module has an alias that is
\* already a top-level property of the registry object (a core feature or
\* the alias of a module registered before); a module whose init did not
\* throw is stored under its name and, when it has an alias, under its alias,
\* and stays there; every alias is bound to the one module that registered it.
C15_AliasCollisionFails ==
  /\ \A k \in DOMAIN Inits :
       /\ Inits[k].threw <=> (Inits[k].alias # Undef /\ AliasTaken(k))
       /\ ~Inits[k].threw =>
            /\ Inits[k].name \in DOMAIN apos.modules
            /\ apos.modules[Inits[k].name] = Inits[k].name
            /\ Inits[k].alias # Undef =>
                 /\ Inits[k].alias \in DOMAIN apos.top
                 /\ apos.top[Inits[k].alias] = Inits[k].name
  /\ \A a \in DOMAIN apos.top \ CoreFeatures :
       Cardinality({k \in DOMAIN Inits : Inits[k].alias = a /\ ~Inits[k].threw}) = 1
  /\ \A a \in CoreFeatures : a \in DOMAIN apos.top /\ apos.top[a] = "core"

C15_Witness ==
  /\ Len(Inits) = 2
  /\ Inits[1].alias = "page" /\ ~Inits[1].threw
  /\ Inits[2].alias = "page" /\ Inits[2].threw
  /\ apos.top["page"] = Inits[1].name

\* the registrations of module m for an event, in registration order
RegisteredBy(m, eventName) ==
  SelectSeq(HandlersOf(apos.eventHandlers, eventName), LAMBDA r : r.module = m)

\* the handlers module m declares for an event, in declaration order
DeclaredBy(m, eventName) ==
  SelectSeq(self[m].handlers, LAMBDA h : h.event = eventName)

\* the calls and completions of handlers of an event, in order
Fired(eventName) ==
  SelectSeq(trace, LAMBDA e : e.op \in {"begin", "end"} /\ e.event = eventName)

AllEvents == BootEvents \cup {Ev_moduleReady, "ev2"}

\* C17: the handlers of an event are called in the order of their
\* registration, and each has completed before the next is called; the
\* handlers a module declares are registered in the order of declaration.
C17_HandlersInRegistrationOrder ==
  \A ev \in AllEvents :
     /\ \A k \in DOMAIN Fired(ev) :
          /\ Fired(ev)[k].op = (IF k % 2 = 1 THEN "begin" ELSE "end")
          /\ (k + 1) \div 2 <= Len(HandlersOf(apos.eventHandlers, ev))
          /\ Fired(ev)[k].module = HandlersOf(apos.eventHandlers, ev)[(k + 1) \div 2].module
          /\ Fired(ev)[k].handler = HandlersOf(apos.eventHandlers, ev)[(k + 1) \div 2].handler
     /\ ev \in emission.emitted =>
          Len(Fired(ev)) = 2 * Len(HandlersOf(apos.eventHandlers, ev))
     /\ \A m \in DOMAIN self :
          /\ self[m].phase = "ready" =>
               /\ Len(RegisteredBy(m, ev)) = Len(DeclaredBy(m, ev))
               /\ \A k \in DOMAIN RegisteredBy(m, ev) :
                    RegisteredBy(m, ev)[k].handler = DeclaredBy(m, ev)[k].handler
          /\ self[m].phase # "ready" => RegisteredBy(m, ev) = <<>>

C17_Witness ==
  /\ "ev" \in emission.emitted
  /\ Len(Fired("ev")) = 8
  /\ Fired("ev")[1].handler = "h2" /\ Fired("ev")[3].handler = "h1"
  /\ Fired("ev")[1].module = Fired("ev")[3].module
  /\ Fired("ev")[5].handler = "h1" /\ Fired("ev")[7].handler = "h2"
  /\ Fired("ev")[8].op = "end"

\* module m has handled the compileRoutes event
Compiled(m) ==
  \E i \in DOMAIN trace :
     trace[i] = [op |-> "begin", event |-> Ev_compileRoutes, module |-> m,
                 handler |-> "compileAllRoutes"]

\* the declared function that a request ends in when it is served by fn
RECURSIVE OriginId(_)
OriginId(fn) ==
  IF fn.kind = "array" THEN (IF fn.items = <<>> THEN Undef ELSE OriginId(fn.items[Len(fn.items)]))
  ELSE IF fn.kind = "object" THEN OriginId(fn.route)
  ELSE IF fn.kind = "undefined" THEN Undef
  ELSE IF "route" \in DOMAIN fn THEN OriginId(fn.route)
  ELSE fn.id

\* the compiled route r is the route of the declaration e of module m
IsRouteOf(r, m, e) ==
  /\ r.method = e.method
  /\ OriginId(r.route) = OriginId(e.config)
  /\ r.url = (IF e.name # <<>> /\ e.name[1] = Slash THEN e.name
              ELSE IF e.name = Str_id THEN ApiV1 \o m \o <<Slash>> \o Str_id
              ELSE ApiV1 \o m \o <<Slash>>
                   \o SubSeq(r.url, Len(ApiV1) + Len(m) + 2, Len(r.url)))

\* the compiled routes of s from position n + 1 on are those of section
\* sec, in order
SectionAt(s, n, sec) ==
  \A i \in DOMAIN sec : IsRouteOf(s._routes[n + i], s.name, sec[i])

\* the functions declared in the routes and renderRoutes sections
PlainIds == {"r1", "r2", "r3", "r4", "v1", "v2"}

\* C13: once a module has handled the compileRoutes event, self._routes
\* holds the routes of the routes section, then those of renderRoutes, then
\* those of apiRoutes, which include one route for every REST shorthand; so
\* every route of routes and renderRoutes comes before every :_id route of
\* apiRoutes with the same method.
C13_SectionsInOrder ==
  \A m \in DOMAIN self : Compiled(m) =>
     /\ Len(self[m]._routes) =
          Len(self[m].routes) + Len(self[m].renderRoutes) + Len(self[m].apiRoutes)
     /\ SectionAt(self[m], 0, self[m].routes)
     /\ SectionAt(self[m], Len(self[m].routes), self[m].renderRoutes)
     /\ SectionAt(self[m], Len(self[m].routes) + Len(self[m].renderRoutes), self[m].apiRoutes)
     /\ \A k \in DOMAIN RestShorthand :
          RestShorthand[k].short \in DOMAIN self[m].restApiRoutes =>
             \E i \in DOMAIN self[m].apiRoutes :
                /\ self[m].apiRoutes[i].method = RestShorthand[k].method
                /\ self[m].apiRoutes[i].name = RestShorthand[k].name
                /\ OriginId(self[m].apiRoutes[i].config) = RestShorthand[k].short
     /\ \A i, j \in DOMAIN self[m]._routes :
          (/\ OriginId(self[m]._routes[i].route) \in PlainIds
           /\ self[m]._routes[j].url = ApiV1 \o m \o <<Slash>> \o Str_id
           /\ self[m]._routes[i].method = self[m]._routes[j].method) => i < j

C13_Witness ==
  /\ Compiled(<<"m">>)
  /\ Len(self[<<"m">>]._routes) = 7
  /\ OriginId(self[<<"m">>]._routes[1].route) = "r1"
  /\ OriginId(self[<<"m">>]._routes[3].route) = "v1"
  /\ OriginId(self[<<"m">>]._routes[4].route) = "a1"
  /\ OriginId(self[<<"m">>]._routes[5].route) = "getOne"
  /\ self[<<"m">>]._routes[5].method = "get"
  /\ self[<<"m">>]._routes[5].url = ApiV1 \o <<"m", "/">> \o Str_id

\* C14: once the compileRoutes event has been handled, no two compiled
\* routes, of one module or of two, have the same method and the same url
\* (a declaration that would add a second one makes the compilation fail).
C14_NoDuplicateRoutes ==
  Ev_compileRoutes \in emission.emitted =>
     \A m1, m2 \in DOMAIN self :
        \A i \in DOMAIN self[m1]._routes, j \in DOMAIN self[m2]._routes :
           (/\ self[m1]._routes[i].method = self[m2]._routes[j].method
            /\ self[m1]._routes[i].url = self[m2]._routes[j].url) =>
              (m1 = m2 /\ i = j)

\* the middleware functions of a declaration
DeclaredMiddleware(config) ==
  IF config.kind = "array" /\ config.items # <<>>
    THEN SubSeq(config.items, 1, Len(config.items) - 1)
    ELSE <<>>

\* the compiled routes of s with this method and url
RoutesAt(s, method, url) ==
  {j \in DOMAIN s._routes : s._routes[j].method = method /\ s._routes[j].url = url}

\* the compiled route r serves the shorthand declared as config: it calls
\* the declared function with the request, and with req.params._id when the
\* shorthand takes an id, after the declared middleware
ServesShorthand(r, step, config) ==
  /\ CallOf(r.route, <<"req", "res">>) =
       [id |-> step.short,
        args |-> IF step.wrap THEN <<"req", "req.params._id">> ELSE <<"req">>]
  /\ MiddlewareOf(r.route) = DeclaredMiddleware(config)

\* C16: once a module has handled the compileRoutes event, every REST
\* shorthand it declares is an apiRoutes entry and a compiled route: getAll
\* and post under the name '' with the declared function, called with the
\* request; getOne, put, patch and delete under the name ':_id' with a
\* function that calls the declared one with (req, req.params._id); the
\* middleware of a handler array is kept as declared and in order.
C16_RestShorthand ==
  \A m \in DOMAIN self : Compiled(m) =>
     \A k \in DOMAIN RestShorthand :
        RestShorthand[k].short \in DOMAIN self[m].restApiRoutes =>
           /\ \E i \in DOMAIN self[m].apiRoutes :
                /\ self[m].apiRoutes[i].method = RestShorthand[k].method
                /\ self[m].apiRoutes[i].name =
                     (IF RestShorthand[k].short \in {"getAll", "post"} THEN <<>> ELSE Str_id)
           /\ Cardinality(RoutesAt(self[m], RestShorthand[k].method,
                                   self[m].action \o <<Slash>> \o RestShorthand[k].name)) = 1
           /\ \A j \in RoutesAt(self[m], RestShorthand[k].method,
                                self[m].action \o <<Slash>> \o RestShorthand[k].name) :
                ServesShorthand(self[m]._routes[j], RestShorthand[k],
                                self[m].restApiRoutes[RestShorthand[k].short])

C16_Witness ==
  /\ Compiled(<<"m">>)
  /\ DOMAIN self[<<"m">>].restApiRoutes = {"getOne", "getAll", "delete"}
  /\ Len(self[<<"m">>].apiRoutes) = 4
  /\ self[<<"m">>].apiRoutes[3].config = Fn("a5")
  /\ OriginId(self[<<"m">>].apiRoutes[1].config) = "getAll"
  /\ \E j \in DOMAIN self[<<"m">>]._routes :
       /\ self[<<"m">>]._routes[j].method = "delete"
       /\ self[<<"m">>]._routes[j].url = ApiV1 \o <<"m", "/">> \o Str_id
       /\ MiddlewareOf(self[<<"m">>]._routes[j].route) = <<Fn("mw1")>>
       /\ CallOf(self[<<"m">>]._routes[j].route, <<"req", "res">>) =
            [id |-> "delete", args |-> <<"req", "req.params._id">>]

\* ------------------------------------------------------------------------
\* checkETag on requests that must not be cached
\* ------------------------------------------------------------------------

\* C25: checkETag returns false and leaves the response as it was (no ETag
\* header written) whenever the request is not safe to cache or the document
\* yields no ETag parts; so it never reports a hit for an authenticated
\* request or a status >= 400, whatever If-None-Match says.
C25_CheckETagNeverHitsUnsafe ==
  ret.fn = "checkETag" =>
    /\ (~isSafeToCache(req, ret.before) \/ generateETagParts(req, ret.doc) = <<>>) =>
         /\ ret.value = FALSE
         /\ res = ret.before
    /\ (req.user \/ ret.before.statusCode >= 400) => ret.value = FALSE

\* an authenticated request whose If-None-Match matches exactly and is fresh
C25_Witness ==
  /\ ret.fn = "checkETag" /\ ret.value = FALSE
  /\ req.user
  /\ ret.before.statusCode = 200
  /\ FreshMatch(req.ifNoneMatch, Context(req, ret.doc), ret.maxAge, ret.now)
  /\ ~res.etag.set

\* ------------------------------------------------------------------------
\* Cache-Control of authenticated requests and of error responses
\* ------------------------------------------------------------------------

\* the Cache-Control values that setMaxAge can write for a cacheable request
MaxAgeValues == {MaxAgeValue(a) : a \in {NumberArg(0), NumberArg(60), NaNArg}}

\* C28: for an authenticated request the response never holds a max-age
\* Cache-Control value; a setMaxAge call writes no-store for a number and
\* nothing otherwise; and the response sent for a successful authenticated
\* GET of an API route (the handler returned and the one res.send call of
\* the wrapper succeeded) has Cache-Control no-store, whatever setMaxAge
\* calls the handler made.
C28_AuthenticatedNeverMaxAge ==
  req.user =>
    /\ res.cacheControl \notin MaxAgeValues
    /\ \A i \in DOMAIN trace :
         IsSend(trace[i]) => trace[i].cacheControl \notin MaxAgeValues
    /\ ret.fn = "setMaxAge" =>
         res = (IF ret.maxAge.type = "number"
                  THEN [ret.before EXCEPT !.cacheControl = "no-store"]
                  ELSE ret.before)
    /\ (pc = "done" /\ req.kind = "apiRoutes" /\ req.method = "GET"
        /\ outcome.type = "return" /\ Len(Sends) = 1) =>
         /\ ~Sends[1].threw
         /\ Sends[1].statusCode = 200
         /\ Sends[1].cacheControl = "no-store"
         /\ res.cacheControl = "no-store"

\* the handler of an authenticated GET called setMaxAge with a number, which
\* is the only writer of no-store before the wrapper, and then returned
C28_Witness ==
  /\ req.user /\ req.kind = "apiRoutes" /\ req.method = "GET"
  /\ pc = "done" /\ outcome.type = "return"
  /\ outcome.before.cacheControl = "no-store"
  /\ res.cacheControl = "no-store"
  /\ trace[Len(trace)].op = "send"
  /\ ~trace[Len(trace)].threw
  /\ trace[Len(trace)].cacheControl = "no-store"

\* C29: a response sent by routeSendError with status >= 400 never carries a
\* max-age Cache-Control header, whatever the handler did before it threw.
C29_ErrorNeverMaxAge ==
  (Terminal /\ outcome.type = "throw") =>
    \A i \in DOMAIN trace :
      (IsSend(trace[i]) /\ trace[i].statusCode >= 400) =>
        trace[i].cacheControl \notin MaxAgeValues

\* ------------------------------------------------------------------------
\* The registry after a failed registration
\* ------------------------------------------------------------------------

\* C24: a call of init that fails on an alias collision leaves the registry
\* as it was before the call: the failing module is stored neither under its
\* alias nor under its name.
C24_FailedInitLeavesRegistry ==
  [][\A m \in DOMAIN self :
       (self[m].phase = "constructed" /\ self'[m].phase = "failed") =>
          /\ apos'.modules = apos.modules
          /\ apos'.top = apos.top
          /\ self[m].name \notin DOMAIN apos'.modules]_vars

\* ------------------------------------------------------------------------
\* Malformed declarations and the place of the wildcard route
\* ------------------------------------------------------------------------

\* the sections compileAllRoutes compiles
Sections == {"routes", "renderRoutes", "apiRoutes"}

\* the handler a declaration ends in is a function (a wrapper put in its
\* place by the compilation counts as what it wraps)
RECURSIVE IsFunctionTerminal(_)
IsFunctionTerminal(fn) ==
  IF fn.kind = "array" THEN fn.items # <<>> /\ IsFunctionTerminal(fn.items[Len(fn.items)])
  ELSE IF fn.kind = "object" THEN IsFunctionTerminal(fn.route)
  ELSE IF fn.kind # "function" THEN FALSE
  ELSE IF fn.id \in {"apiRoutes", "renderRoutes"} THEN IsFunctionTerminal(fn.route)
  ELSE TRUE

\* C23: a declaration whose terminal handler is not a function (undefined,
\* or an empty handler array) makes the compilation of its module fail, and
\* no compiled route exists for it.
C23_MalformedDeclarationFails ==
  \A m \in DOMAIN self : Compiled(m) =>
     \A sec \in Sections : \A i \in DOMAIN self[m][sec] :
        ~IsFunctionTerminal(self[m][sec][i].config) =>
           /\ self[m].phase = "threw"
           /\ RoutesAt(self[m], self[m][sec][i].method,
                       getRouteUrl(self[m].action, self[m][sec][i].name)) = {}

\* the url of the wildcard route of module s
WildcardUrl(s) == s.action \o <<Slash>> \o Str_id

\* C26: in the compiled routes of a module, the :_id route of a method
\* comes after every other route of that method.
C26_WildcardAfterNamed ==
  \A m \in DOMAIN self : Compiled(m) =>
     \A i, j \in DOMAIN self[m]._routes :
        (/\ self[m]._routes[i].url = WildcardUrl(self[m])
         /\ self[m]._routes[j].url # WildcardUrl(self[m])
         /\ self[m]._routes[i].method = self[m]._routes[j].method) => j < i

\* ------------------------------------------------------------------------
\* The order in which a handler array is run
\* ------------------------------------------------------------------------

RECURSIVE SumSeq(_)
SumSeq(ns) == IF ns = <<>> THEN 0 ELSE ns[1] + SumSeq(Tail(ns))

\* the call c of a compiled route whose handler array is route has invoked
\* the handlers in order, one for each call of next
InOrder(c, route) ==
  /\ Len(c.invoked) <= Len(route)
  /\ Len(c.made) = Len(c.invoked)
  /\ \A p \in DOMAIN c.invoked :
       /\ c.invoked[p].k = p
       /\ c.invoked[p].handler = route[p]
       /\ c.invoked[p].next = (IF p = Len(route) THEN "null" ELSE "next")
       /\ c.invoked[p].next = "null" => c.made[p] = 0
  /\ c.i = 1 + SumSeq(c.made)
  /\ Len(c.invoked) = (IF c.i <= Len(route) THEN c.i ELSE Len(route))
  /\ c.threw = c.i - Len(c.invoked)

\* C27: for every request served by a handler-array route, the handlers
\* invoked so far are the first, second, ... of the array in that order,
\* each once; one more handler is invoked for each call of next, made by
\* any handler that received it and however often; the counter is that of
\* the request alone; only the last handler receives null instead of next.
C27_ChainInOrder ==
  \A q \in RequestIds :
     calls[q] # NoCall =>
        /\ IsChain(calls[q].m, calls[q].j)
        /\ InOrder(calls[q], RouteItems(calls[q]))

\* two requests in flight on the route [mw1, mw2, r1]: for the first, mw1
\* has called next twice and mw2 never, and all three handlers have been
\* invoked; for the second only mw1 has been invoked
C27_Witness ==
  /\ calls["q1"] # NoCall /\ calls["q2"] # NoCall
  /\ calls["q1"].m = calls["q2"].m /\ calls["q1"].j = calls["q2"].j
  /\ Len(RouteItems(calls["q1"])) = 3
  /\ calls["q1"].made = <<2, 0, 0>>
  /\ calls["q1"].invoked[3] = [k |-> 3, handler |-> Fn("r1"), next |-> "null"]
  /\ calls["q2"].i = 1
  /\ Len(calls["q2"].invoked) = 1

\* ------------------------------------------------------------------------
\* Startup tasks
\* ------------------------------------------------------------------------

\* the task of module m declared under the name of the call e
DeclaredTask(e) ==
  CHOOSE t \in {TasksOf(self[e.module])[k] : k \in DOMAIN TasksOf(self[e.module])} :
    t.name = e.name

\* the call at place p of the trace is followed by a call of _exit
ExitFollows(p) == p < Len(trace) /\ trace[p + 1] = ExitCall

\* C21: a task is run in a phase only if it is flagged for that phase and
\* the command is <module>:<task>; when it has returned, _exit is called
\* next unless the task declares exitAfter: false, in which case _exit is
\* not called, taskRan is set and the startup of the module goes on; _exit
\* is called for no other reason.
C21_TaskRunsForItsCommand ==
  /\ \A p \in DOMAIN trace :
       trace[p].op = "task" =>
          /\ DeclaredTask(trace[p])[trace[p].when]
          /\ apos.argv = CommandOf(trace[p].module, trace[p].name)
          /\ (~trace[p].threw /\ DeclaredTask(trace[p]).exitAfter # "false") =>
                ExitFollows(p)
          /\ (~trace[p].threw /\ DeclaredTask(trace[p]).exitAfter = "false") =>
                /\ ~ExitFollows(p)
                /\ apos.taskRan
                /\ trace[p].when = "afterModuleInit" =>
                     self[trace[p].module].phase # "initialized"
  /\ \A p \in DOMAIN trace :
       trace[p] = ExitCall =>
          /\ p > 1
          /\ trace[p - 1].op = "task"
          /\ ~trace[p - 1].threw
          /\ DeclaredTask(trace[p - 1]).exitAfter # "false"

\* the task m:run, flagged afterModuleInit with exitAfter: false, has run,
\* _exit was never called, and the startup went on to compile the routes
C21_Witness ==
  /\ apos.argv = CommandOf(<<"m">>, Str_run)
  /\ apos.taskRan
  /\ \E p \in DOMAIN trace :
       /\ trace[p] = TaskCall(self[<<"m">>], DeclaredTask([module |-> <<"m">>, name |-> Str_run]),
                              "afterModuleInit", TRUE)
       /\ DeclaredTask(trace[p]).exitAfter = "false"
  /\ \A p \in DOMAIN trace : trace[p] # ExitCall
  /\ Ev_compileRoutes \in emission.emitted

\* ------------------------------------------------------------------------
\* What writes the registry and the compiled routes
\* ------------------------------------------------------------------------

\* the step is the call of init for module m
IsInitStep(m) ==
  self[m].phase = "constructed" /\ self'[m].phase \in {"initialized", "failed"}

\* the step is the call of the compileAllRoutes handler of module m
IsCompileStep(m) ==
  /\ emission.event = Ev_compileRoutes
  /\ ~emission.running /\ emission'.running
  /\ Reached = [module |-> m, handler |-> "compileAllRoutes"]

\* the step is made for a request: a wrapper or a handler acts, a helper is
\* called, or a handler-array route is called or goes on
IsRequestStep ==
  <<req, res, pc, outcome, ret, calls>>' # <<req, res, pc, outcome, ret, calls>>

\* C22: apos.modules and the other properties of the registry object are
\* written only by init, and self._routes of a module only by its init and
\* by its handler of the compileRoutes event; no step made for a request
\* (wrapper, routeSendError, isSafeToCache, setMaxAge, checkETag,
\* getRouteUrl, canAccessApi, call of a handler array) changes either.
C22_RegistryWrittenAtStartupOnly ==
  [][/\ (apos'.modules # apos.modules \/ apos'.top # apos.top) =>
          \E m \in DOMAIN self : IsInitStep(m)
     /\ \A m \in DOMAIN self :
          self'[m]._routes # self[m]._routes => (IsInitStep(m) \/ IsCompileStep(m))
     /\ IsRequestStep =>
          /\ apos'.modules = apos.modules
          /\ apos'.top = apos.top
          /\ \A m \in DOMAIN self : self'[m]._routes = self[m]._routes]_vars

\* the module is registered and compiled, a request to a handler-array
\* route has run both handlers, and a request to a wrapped route was
\* answered by routeSendError
C22_Witness ==
  /\ apos.modules = (<<"m">> :> <<"m">>)
  /\ apos.top["page"] = <<"m">>
  /\ Len(self[<<"m">>]._routes) = 3
  /\ Len(calls["q1"].invoked) = 2
  /\ pc = "done" /\ outcome.type = "throw"
  /\ Len(Sends) = 1 /\ Sends[1].statusCode = 404

====
